---- MODULE Spec2Model ----
(***************************************************************************)
(* A model of the Angular Form Snapshot extension: the snapshot codec      *)
(* (DataEncoder), the control extractor (FormControlInspector) and the     *)
(* restore loop (AngularFormSnapshotContent.restoreForms).                 *)
(*                                                                         *)
(* JavaScript strings are sequences of UTF-16 code units (integers).       *)
(* S(<<"a","b">>) writes a string literal.  A text that may be too long to *)
(* enumerate (the serialized snapshot) is a sequence of runs <<c, n>>: the *)
(* code unit c repeated n times.                                           *)
(***************************************************************************)
EXTENDS Integers, Sequences, FiniteSets, TLC

(***************************************************************************)
(* Code units.                                                             *)
(***************************************************************************)
Ascii ==
  <<" ", "!", "\"", "#", "$", "%", "&", "'", "(", ")", "*", "+", ",", "-", ".", "/",
    "0", "1", "2", "3", "4", "5", "6", "7", "8", "9", ":", ";", "<", "=", ">", "?",
    "@", "A", "B", "C", "D", "E", "F", "G", "H", "I", "J", "K", "L", "M", "N", "O",
    "P", "Q", "R", "S", "T", "U", "V", "W", "X", "Y", "Z", "[", "\\", "]", "^", "_",
    "backtick", "a", "b", "c", "d", "e", "f", "g", "h", "i", "j", "k", "l", "m", "n", "o",
    "p", "q", "r", "s", "t", "u", "v", "w", "x", "y", "z", "{", "|", "}", "~">>

\* The code unit of a printable ASCII character; "backtick" names U+0060 and
\* "e-acute" names U+00E9.
CodeTable ==
  [c \in {Ascii[i] : i \in DOMAIN Ascii} \cup {"e-acute"} |->
     IF c = "e-acute" THEN 233
     ELSE 31 + (CHOOSE i \in DOMAIN Ascii : Ascii[i] = c)]

Ch(c) == CodeTable[c]

S(lit) == [i \in DOMAIN lit |-> CodeTable[lit[i]]]

(***************************************************************************)
(* Balanced helpers: every fold over a long sequence splits its range in   *)
(* halves, left half first, so that the evaluation depth stays             *)
(* logarithmic while the elements are still visited left to right.         *)
(***************************************************************************)
RECURSIVE ConcatMap(_, _, _, _)
ConcatMap(F(_), s, lo, hi) ==
  IF lo > hi THEN <<>>
  ELSE IF lo = hi THEN F(s[lo])
  ELSE LET mid == (lo + hi) \div 2
       IN ConcatMap(F, s, lo, mid) \o ConcatMap(F, s, mid + 1, hi)

RECURSIVE SumMap(_, _, _, _)
SumMap(F(_), s, lo, hi) ==
  IF lo > hi THEN 0
  ELSE IF lo = hi THEN F(s[lo])
  ELSE LET mid == (lo + hi) \div 2
       IN SumMap(F, s, lo, mid) + SumMap(F, s, mid + 1, hi)

RECURSIVE FoldLeft(_, _, _, _, _)
FoldLeft(F(_, _), h, s, lo, hi) ==
  IF lo > hi THEN h
  ELSE IF lo = hi THEN F(h, s[lo])
  ELSE LET mid == (lo + hi) \div 2
           hl == FoldLeft(F, h, s, lo, mid)
       IN IF hl = hl THEN FoldLeft(F, hl, s, mid + 1, hi) ELSE hl

Range(s) == {s[i] : i \in DOMAIN s}

\* Array.prototype.join
RECURSIVE Join(_, _)
Join(parts, sep) ==
  IF parts = <<>> THEN <<>>
  ELSE IF Len(parts) = 1 THEN parts[1]
  ELSE parts[1] \o sep \o Join(Tail(parts), sep)

\* String.prototype.split(sep) for a one-unit separator
RECURSIVE Split(_, _)
Split(s, sep) ==
  IF \A i \in DOMAIN s : s[i] # sep THEN <<s>>
  ELSE LET p == CHOOSE i \in DOMAIN s : s[i] = sep /\ \A j \in 1..(i - 1) : s[j] # sep
       IN <<SubSeq(s, 1, p - 1)>> \o Split(SubSeq(s, p + 1, Len(s)), sep)

(***************************************************************************)
(* Texts as runs.                                                          *)
(***************************************************************************)
Unit(c) == <<c, 1>>
Lit(s) == [i \in DOMAIN s |-> <<s[i], 1>>]
RunLen(r) == r[2]
TextLen(t) == SumMap(RunLen, t, 1, Len(t))
\* the explicit string of a text all of whose runs have length 1
Explode(t) == [i \in DOMAIN t |-> t[i][1]]

(***************************************************************************)
(* encodeData / decodeData (content-script.js 2629-2641).                  *)
(***************************************************************************)
\* unescape(encodeURIComponent(s)): the UTF-8 bytes of s, one per unit
Utf8Unit(c) ==
  IF c < 128 THEN <<c>>
  ELSE IF c < 2048 THEN <<192 + c \div 64, 128 + (c % 64)>>
  ELSE <<224 + c \div 4096, 128 + ((c \div 64) % 64), 128 + (c % 64)>>

Utf8Bytes(s) == ConcatMap(Utf8Unit, s, 1, Len(s))

IsCont(b) == b >= 128 /\ b <= 191
\* continuation bytes the lead byte b asks for; -1: b cannot start a character
Utf8Need(b) ==
  IF b < 128 THEN 0
  ELSE IF b >= 194 /\ b <= 223 THEN 1
  ELSE IF b >= 224 /\ b <= 239 THEN 2
  ELSE IF b >= 240 /\ b <= 244 THEN 3
  ELSE -1

\* decodeURIComponent(escape(s)) accepts s: well-formed UTF-8, no overlong
\* form, no surrogate
Utf8WellFormed(b) ==
  \A i \in DOMAIN b :
    IF IsCont(b[i])
    THEN \E j \in 1..(i - 1) : /\ ~IsCont(b[j])
                               /\ i - j <= Utf8Need(b[j])
                               /\ \A k \in (j + 1)..i : IsCont(b[k])
    ELSE /\ Utf8Need(b[i]) >= 0
         /\ i + Utf8Need(b[i]) <= Len(b)
         /\ \A k \in (i + 1)..(i + Utf8Need(b[i])) : IsCont(b[k])
         /\ (b[i] = 224 => b[i + 1] >= 160)
         /\ (b[i] = 237 => b[i + 1] < 160)
         /\ (b[i] = 240 => b[i + 1] >= 144)
         /\ (b[i] = 244 => b[i + 1] < 144)

\* the code units of the character that starts at byte i (a character
\* outside the Basic Multilingual Plane is a surrogate pair)
Utf8UnitAt(b, i) ==
  IF IsCont(b[i]) THEN <<>>
  ELSE IF b[i] < 128 THEN <<b[i]>>
  ELSE IF b[i] <= 223 THEN <<(b[i] - 192) * 64 + (b[i + 1] - 128)>>
  ELSE IF b[i] <= 239
  THEN <<(b[i] - 224) * 4096 + (b[i + 1] - 128) * 64 + (b[i + 2] - 128)>>
  ELSE LET cp == (b[i] - 240) * 262144 + (b[i + 1] - 128) * 4096
                 + (b[i + 2] - 128) * 64 + (b[i + 3] - 128) - 65536
       IN <<55296 + cp \div 1024, 56320 + (cp % 1024)>>

RECURSIVE Utf8DecodeRange(_, _, _)
Utf8DecodeRange(b, lo, hi) ==
  IF lo > hi THEN <<>>
  ELSE IF lo = hi THEN Utf8UnitAt(b, lo)
  ELSE LET mid == (lo + hi) \div 2
       IN Utf8DecodeRange(b, lo, mid) \o Utf8DecodeRange(b, mid + 1, hi)

Utf8Decode(b) == Utf8DecodeRange(b, 1, Len(b))

B64Alphabet ==
  S(<<"A", "B", "C", "D", "E", "F", "G", "H", "I", "J", "K", "L", "M", "N", "O", "P",
      "Q", "R", "S", "T", "U", "V", "W", "X", "Y", "Z", "a", "b", "c", "d", "e", "f",
      "g", "h", "i", "j", "k", "l", "m", "n", "o", "p", "q", "r", "s", "t", "u", "v",
      "w", "x", "y", "z", "0", "1", "2", "3", "4", "5", "6", "7", "8", "9", "+", "/">>)

B64Value == [c \in Range(B64Alphabet) |-> (CHOOSE i \in DOMAIN B64Alphabet : B64Alphabet[i] = c) - 1]

ByteAt(b, i) == IF i <= Len(b) THEN b[i] ELSE 0

\* btoa: standard base64 with "=" padding
Btoa(b) ==
  [i \in 1..(4 * ((Len(b) + 2) \div 3)) |->
     LET g  == (i - 1) \div 4
         k  == (i - 1) % 4
         b1 == ByteAt(b, 3 * g + 1)
         b2 == ByteAt(b, 3 * g + 2)
         b3 == ByteAt(b, 3 * g + 3)
     IN IF k = 0 THEN B64Alphabet[b1 \div 4 + 1]
        ELSE IF k = 1 THEN B64Alphabet[(b1 % 4) * 16 + b2 \div 16 + 1]
        ELSE IF k = 2 THEN IF 3 * g + 2 > Len(b) THEN Ch("=")
                           ELSE B64Alphabet[(b2 % 16) * 4 + b3 \div 64 + 1]
        ELSE IF 3 * g + 3 > Len(b) THEN Ch("=")
             ELSE B64Alphabet[(b3 % 64) + 1]]

\* String.prototype.replace(/x/g, y) for one-unit x and y
ReplaceAll(s, x, y) == [i \in DOMAIN s |-> IF s[i] = x THEN y ELSE s[i]]

\* String.prototype.replace(/=+$/, '')
RECURSIVE StripTrailingEq(_)
StripTrailingEq(s) ==
  IF s # <<>> /\ s[Len(s)] = Ch("=") THEN StripTrailingEq(SubSeq(s, 1, Len(s) - 1)) ELSE s

Repeat(c, n) == [i \in 1..n |-> c]

\* atob: forgiving-base64 decode.  The text without its (at most two) final
\* "=" when its length is a multiple of four.
AtobBody(s) ==
  IF Len(s) % 4 # 0 \/ s = <<>> THEN s
  ELSE IF s[Len(s)] # Ch("=") THEN s
  ELSE IF s[Len(s) - 1] # Ch("=") THEN SubSeq(s, 1, Len(s) - 1)
  ELSE SubSeq(s, 1, Len(s) - 2)

AtobOk(s) ==
  LET t == AtobBody(s)
  IN /\ Len(t) % 4 # 1
     /\ \A i \in DOMAIN t : t[i] \in DOMAIN B64Value

AtobBytes(s) ==
  LET t == AtobBody(s)
      v(i) == B64Value[t[i]]
  IN [j \in 1..((Len(t) * 6) \div 8) |->
        LET q == (j - 1) \div 3
            r == (j - 1) % 3
        IN IF r = 0 THEN v(4 * q + 1) * 4 + v(4 * q + 2) \div 16
           ELSE IF r = 1 THEN (v(4 * q + 2) % 16) * 16 + v(4 * q + 3) \div 4
           ELSE (v(4 * q + 3) % 4) * 64 + v(4 * q + 4)]

\* encodeData on a string: URL-safe base64 of its UTF-8 bytes, padding removed
EncodeString(jsonString) ==
  StripTrailingEq(ReplaceAll(ReplaceAll(Btoa(Utf8Bytes(jsonString)), Ch("+"), Ch("-")),
                             Ch("/"), Ch("_")))

\* decodeData up to atob's argument
DecodePadded(encodedData) ==
  LET base64 == ReplaceAll(ReplaceAll(encodedData, Ch("-"), Ch("+")), Ch("_"), Ch("/"))
  IN base64 \o Repeat(Ch("="), (4 - (Len(base64) % 4)) % 4)

(***************************************************************************)
(* calculateChecksum (content-script.js 2643-2660).                        *)
(***************************************************************************)
HexDigits ==
  S(<<"0", "1", "2", "3", "4", "5", "6", "7", "8", "9", "a", "b", "c", "d", "e", "f">>)

\* Number.prototype.toString(16) of a byte, then padStart(2, '0')
HexByte(b) ==
  LET digits == IF b < 16 THEN <<HexDigits[b + 1]>>
                ELSE <<HexDigits[b \div 16 + 1], HexDigits[(b % 16) + 1]>>
  IN Repeat(Ch("0"), 2 - Len(digits)) \o digits

\* crypto.subtle.digest('SHA-256', bytes) is a primitive of the browser.  The
\* model computes the first eight of its 32 bytes with a 64-bit polynomial,
\* kept as four 16-bit limbs, most significant first: deterministic, and no
\* two inputs that differ in one byte have the same value (the multiplier is
\* odd).  slice(0, 16) drops the other 24 bytes, which are left zero.
DigestStep(h, b) ==
  LET l0 == 8191 * h[4] + b + 1
      l1 == 8191 * h[3] + l0 \div 65536
      l2 == 8191 * h[2] + l1 \div 65536
      l3 == 8191 * h[1] + l2 \div 65536
  IN <<l3 % 65536, l2 % 65536, l1 % 65536, l0 % 65536>>

Sha256(bytes) ==
  LET h == FoldLeft(DigestStep, <<0, 0, 0, 0>>, bytes, 1, Len(bytes))
  IN [i \in 1..32 |->
        IF i > 8 THEN 0
        ELSE IF i % 2 = 1 THEN h[(i + 1) \div 2] \div 256
        ELSE h[i \div 2] % 256]

\* hash = ((hash << 5) - hash) + char; hash = hash & hash: a 32-bit word, kept
\* as <<high 16 bits, low 16 bits>>
HashStep(h, char) ==
  LET lo == 31 * h[2] + char
      hi == 31 * h[1] + lo \div 65536
  IN <<hi % 65536, lo % 65536>>

\* Math.abs of the word read as a signed 32-bit integer
AbsInt32(h) ==
  IF h[1] < 32768 THEN h
  ELSE <<(65535 - h[1] + (IF h[2] = 0 THEN 1 ELSE 0)) % 65536, (65536 - h[2]) % 65536>>

Hex4(n) ==
  <<HexDigits[n \div 4096 + 1], HexDigits[((n \div 256) % 16) + 1],
    HexDigits[((n \div 16) % 16) + 1], HexDigits[(n % 16) + 1]>>

RECURSIVE StripLeadingZeros(_)
StripLeadingZeros(s) ==
  IF Len(s) > 1 /\ s[1] = Ch("0") THEN StripLeadingZeros(Tail(s)) ELSE s

\* Number.prototype.toString(16) of a non-negative word
ToString16(h) == StripLeadingZeros(Hex4(h[1]) \o Hex4(h[2]))

\* String.prototype.padStart(n, '0')
PadStart(s, n) == IF Len(s) >= n THEN s ELSE Repeat(Ch("0"), n - Len(s)) \o s

FallbackHash(data) ==
  PadStart(ToString16(AbsInt32(FoldLeft(HashStep, <<0, 0>>, data, 1, Len(data)))), 8)

calculateChecksum(data, cryptoSubtle) ==
  IF cryptoSubtle
  THEN LET hashArray == Sha256(Utf8Bytes(data))
       IN SubSeq(ConcatMap(HexByte, hashArray, 1, Len(hashArray)), 1, 16)
  ELSE FallbackHash(data)

(***************************************************************************)
(* JSON.stringify of the values the extension serializes.  The result is a *)
(* text (runs).                                                            *)
(***************************************************************************)
\* A control value: a boolean (checkbox, radio) or a string.  n > 0 stands
\* for the string made of n copies of the unit s[1].
JsBool(b) == [t |-> "boolean", b |-> b, s |-> <<>>, n |-> 0]
JsStr(s) == [t |-> "string", b |-> FALSE, s |-> s, n |-> 0]
JsRepeat(c, n) == [t |-> "string", b |-> FALSE, s |-> <<c>>, n |-> n]

\* JSON.stringify escapes the quote and the backslash of a string (control
\* characters, which no string of the model contains, would be escaped too)
JsonEscapeUnit(c) ==
  IF c = Ch("\"") \/ c = Ch("\\") THEN <<Unit(Ch("\\")), Unit(c)>> ELSE <<Unit(c)>>

JsonString(s) ==
  <<Unit(Ch("\""))>> \o ConcatMap(JsonEscapeUnit, s, 1, Len(s)) \o <<Unit(Ch("\""))>>

JsonBoolean(b) == IF b THEN Lit(S(<<"t", "r", "u", "e">>)) ELSE Lit(S(<<"f", "a", "l", "s", "e">>))

JsonValue(v) ==
  IF v.t = "boolean" THEN JsonBoolean(v.b)
  ELSE IF v.n = 0 THEN JsonString(v.s)
  ELSE <<Unit(Ch("\"")), <<v.s[1], v.n>>, Unit(Ch("\""))>>

JsonMember(key, valueText) == JsonString(key) \o <<Unit(Ch(":"))>> \o valueText

JsonObject(members) ==
  <<Unit(Ch("{"))>> \o Join(members, <<Unit(Ch(","))>>) \o <<Unit(Ch("}"))>>

JsonArray(items) ==
  <<Unit(Ch("["))>> \o Join(items, <<Unit(Ch(","))>>) \o <<Unit(Ch("]"))>>


\* attributes: an object, rendered in the insertion order of its keys
JsonAttributes(attributes) ==
  JsonObject([i \in DOMAIN attributes |->
                JsonMember(attributes[i][1], JsonString(attributes[i][2]))])

JsonValidators(validators) ==
  JsonArray([i \in DOMAIN validators |-> JsonString(validators[i])])

JsonMetadata(m) ==
  JsonObject(<<JsonMember(S(<<"i", "s", "D", "i", "s", "a", "b", "l", "e", "d">>), JsonBoolean(m.isDisabled)),
               JsonMember(S(<<"i", "s", "R", "e", "a", "d", "o", "n", "l", "y">>), JsonBoolean(m.isReadonly)),
               JsonMember(S(<<"i", "s", "R", "e", "q", "u", "i", "r", "e", "d">>), JsonBoolean(m.isRequired)),
               JsonMember(S(<<"p", "l", "a", "c", "e", "h", "o", "l", "d", "e", "r">>), JsonString(m.placeholder)),
               JsonMember(S(<<"c", "l", "a", "s", "s", "N", "a", "m", "e">>), JsonString(m.className))>>
             \o (IF m.material
                 THEN <<JsonMember(S(<<"m", "a", "t", "L", "a", "b", "e", "l">>), JsonString(m.matLabel)),
                        JsonMember(S(<<"m", "a", "t", "H", "i", "n", "t">>), JsonString(m.matHint)),
                        JsonMember(S(<<"m", "a", "t", "E", "r", "r", "o", "r">>), JsonString(m.matError))>>
                 ELSE <<>>))

JsonControl(ctrl) ==
  JsonObject(<<JsonMember(S(<<"i", "d">>), JsonString(ctrl.id)),
               JsonMember(S(<<"t", "y", "p", "e">>), JsonString(ctrl.type)),
               JsonMember(S(<<"n", "a", "m", "e">>), JsonString(ctrl.name)),
               JsonMember(S(<<"v", "a", "l", "u", "e">>), JsonValue(ctrl.value)),
               JsonMember(S(<<"p", "a", "t", "h">>), JsonString(ctrl.path)),
               JsonMember(S(<<"t", "a", "g", "N", "a", "m", "e">>), JsonString(ctrl.tagName)),
               JsonMember(S(<<"a", "t", "t", "r", "i", "b", "u", "t", "e", "s">>), JsonAttributes(ctrl.attributes)),
               JsonMember(S(<<"v", "a", "l", "i", "d", "a", "t", "o", "r", "s">>), JsonValidators(ctrl.validators)),
               JsonMember(S(<<"m", "e", "t", "a", "d", "a", "t", "a">>), JsonMetadata(ctrl.metadata))>>)

\* the snapshot object of encodeFormData; timestamp is the decimal text of
\* Date.now()
JsonSnapshot(snap) ==
  JsonObject(<<JsonMember(S(<<"v", "e", "r", "s", "i", "o", "n">>), JsonString(snap.version)),
               JsonMember(S(<<"t", "i", "m", "e", "s", "t", "a", "m", "p">>), Lit(snap.timestamp)),
               JsonMember(S(<<"u", "r", "l">>), JsonString(snap.url)),
               JsonMember(S(<<"t", "i", "t", "l", "e">>), JsonString(snap.title)),
               JsonMember(S(<<"u", "s", "e", "r", "A", "g", "e", "n", "t">>), JsonString(snap.userAgent)),
               JsonMember(S(<<"f", "o", "r", "m", "C", "o", "n", "t", "r", "o", "l", "s">>),
                          JsonArray([i \in DOMAIN snap.formControls |->
                                       JsonControl(snap.formControls[i])]))>>)

\* Number.prototype.toString() of a natural number
RECURSIVE Decimal(_)
Decimal(n) ==
  IF n < 10 THEN <<HexDigits[n + 1]>> ELSE Decimal(n \div 10) \o <<HexDigits[(n % 10) + 1]>>

\* JSON.stringify of a Uint8Array: an object keyed by the indices
JsonUint8Array(bytes) ==
  JsonObject([i \in DOMAIN bytes |-> JsonMember(Decimal(i - 1), Lit(Decimal(bytes[i])))])

(***************************************************************************)
(* ENCODING_CONFIG (content-script.js 1884-1890).                          *)
(***************************************************************************)
VERSION == S(<<"1", ".", "0">>)
SEPARATOR == Ch("|")
MAX_FORM_CONTROLS == 1000
DEBOUNCE_DELAY == 300
maxSnapshots == 50
COMPRESSION_THRESHOLD == 1024
MAX_SNAPSHOT_SIZE == 5 * 1024 * 1024

(***************************************************************************)
(* compressData / decompressData (content-script.js 2529-2584).            *)
(*                                                                         *)
(* A value handed from one step of the codec to the next is a string or a  *)
(* Uint8Array.  CompressionStream and DecompressionStream are primitives   *)
(* of the browser: the gzip stream of the model has the real ten-byte      *)
(* header and the real length trailer, and four bytes each in place of the *)
(* deflate stream and of the CRC; the array carries the text it inflates   *)
(* to.  The manifest is version 3, so the browser has CompressionStream    *)
(* and the dictionary fallback of compressData is never taken.             *)
(***************************************************************************)
StringValue(str) == [type |-> "string", str |-> str, bytes |-> <<>>, inflated |-> <<>>]
Uint8ArrayValue(bytes, inflated) ==
  [type |-> "Uint8Array", str |-> <<>>, bytes |-> bytes, inflated |-> inflated]

AbsorbRun(h, run) ==
  DigestStep(DigestStep(DigestStep(h, run[1]), run[2] % 65536), run[2] \div 65536)

RunBytes(run) == Len(Utf8Unit(run[1])) * run[2]

Gzip(text) ==
  LET h     == FoldLeft(AbsorbRun, <<0, 0, 0, 0>>, text, 1, Len(text))
      isize == SumMap(RunBytes, text, 1, Len(text))
  IN <<31, 139, 8, 0, 0, 0, 0, 0, 0, 3>>
     \o <<h[1] \div 256, h[1] % 256, h[2] \div 256, h[2] % 256>>
     \o <<h[3] \div 256, h[3] % 256, h[4] \div 256, h[4] % 256>>
     \o <<isize % 256, (isize \div 256) % 256, (isize \div 65536) % 256,
          isize \div 16777216>>

compressData(data) ==
  IF TextLen(data) < COMPRESSION_THRESHOLD
  THEN StringValue(Explode(data))
  ELSE Uint8ArrayValue(Gzip(data), data)

\* the text a value decompresses to
decompressData(data) ==
  IF data.type = "string" THEN Lit(data.str) ELSE data.inflated

encodeData(data) ==
  EncodeString(IF data.type = "string" THEN data.str
               ELSE Explode(JsonUint8Array(data.bytes)))

(***************************************************************************)
(* The codec as a process: encodeFormData (2461-2492), then decodeFormData *)
(* (2499-2527) on a token, each step one action.                           *)
(***************************************************************************)
VARIABLES
  cryptoSubtle,        \* crypto.subtle is available (a secure context)
  formControls,        \* the argument of encodeFormData
  now,                 \* Date.now(), as decimal text
  encPc,               \* the encoder's position
  snapshot, jsonString, compressed, encoded, token,
  decPc,               \* the decoder's position
  encodedData,         \* the argument of decodeFormData
  parts, calculatedChecksum, decoded, decompressed,
  result,              \* what decodeFormData returned
  decError             \* the error decodeFormData threw

codecVars ==
  <<cryptoSubtle, formControls, now, encPc, snapshot, jsonString, compressed, encoded,
    token, decPc, encodedData, parts, calculatedChecksum, decoded, decompressed, result,
    decError>>

\* The page and the content script
VARIABLES
  dom,                 \* the document
  drift,               \* how often the page changed since the capture
  lastSnapshot,        \* the controls captureForms extracted (snapshot.forms)
  optionsSnapshot,     \* options.snapshot.formControls of restoreForms
  restorePc,           \* the content script's position
  currentFormControls, currentControlsMap, index,
  restoredCount, skippedCount, errors,
  reports,             \* what the calls of restoreForms returned
  clicked,             \* the mat-option elements clicked
  dispatched,          \* the events dispatched on elements of the page, in order
  domAfter,            \* the document as each call of restoreForms left it
  options,             \* what the last call of restoreForms was given
  restoreError,        \* the message of the error it threw, or "none"
  angularDetected,     \* this.angularDetected of the content script
  isAngularTab,        \* extensionState.angularTabs of the background has the tab
  popupDetected,       \* this.angularDetected of the popup
  env,                 \* what the browser lets the content script do
  entry,               \* how the last call of captureForms was made
  captureOptions,      \* its argument
  capturedControls,    \* its formControls
  encodedSnapshot,     \* its token
  clipboard,           \* the text on the clipboard
  store,               \* the snapshots the background keeps
  loaded,              \* the answer to the last LOAD_SNAPSHOT
  captureError,        \* the message of the error captureForms threw, or "none"
  inspection,          \* the result AngularFormInspector last filled in
  time,                \* milliseconds since the content script started
  timers,              \* the timeouts of the page that are set and have not run
  timerSeq,            \* the id setTimeout returns next
  debounceTimers,      \* this.debounceTimers: the timer of 'formScan', if any
  scansInFlight,       \* the calls of scanForms that await the inspector
  formControlsCache,   \* this.formControls, the cache scanForms fills
  events               \* the calls of debounce and the scans it started, in order

\* The background service worker and what is sent to it
VARIABLES
  detectionAttempts,   \* this.detectionAttempts of the content script
  runtimeMessages,     \* chrome.runtime.sendMessage: the messages not yet handled
  commands,            \* the keyboard commands handled, each with what became of it
  saveCalls,           \* the calls of saveSnapshot that stand at an await
  workerLog            \* what handleMessage received and answered, in order

workerVars == <<detectionAttempts, runtimeMessages, commands, saveCalls, workerLog>>

\* the service worker has just started and nothing was sent to it
WorkerIdle ==
  /\ detectionAttempts = 0
  /\ runtimeMessages = <<>>
  /\ commands = <<>>
  /\ saveCalls = <<>>
  /\ workerLog = <<>>

pageVars ==
  <<dom, drift, lastSnapshot, optionsSnapshot, restorePc, currentFormControls,
    currentControlsMap, index, restoredCount, skippedCount, errors, reports, clicked,
    dispatched, domAfter, options, restoreError, angularDetected, isAngularTab, workerVars, popupDetected, env,
    entry, captureOptions, capturedControls, encodedSnapshot, clipboard, store, loaded,
    captureError, inspection, time, timers, timerSeq, debounceTimers, scansInFlight,
    formControlsCache, events>>

\* what a capture leaves behind
extensionVars ==
  <<angularDetected, isAngularTab, workerVars, popupDetected, env, entry, captureOptions,
    capturedControls, encodedSnapshot, clipboard, store, loaded, captureError,
    inspection>>

\* the DOM observer and its debounce
observerVars ==
  <<time, timers, timerSeq, debounceTimers, scansInFlight, formControlsCache, events>>

vars == <<codecVars, pageVars>>

NoValue == StringValue(<<>>)
NoSnapshot ==
  [version |-> <<>>, timestamp |-> <<>>, url |-> <<>>, title |-> <<>>,
   userAgent |-> <<>>, formControls |-> <<>>]
\* what JSON.parse returned: a snapshot, the index-keyed object of a
\* Uint8Array, or a value that is neither
SnapshotResult(snap) == [kind |-> "snapshot", snapshot |-> snap, bytes |-> <<>>]
IndexedResult(bytes) == [kind |-> "indexed", snapshot |-> NoSnapshot, bytes |-> bytes]
ForeignResult == [kind |-> "foreign", snapshot |-> NoSnapshot, bytes |-> <<>>]
NoResult == [kind |-> "none", snapshot |-> NoSnapshot, bytes |-> <<>>]

PageUrl == S(<<"h", "t", "t", "p", "s", ":", "/", "/", "a", "p", "p", ".", "e", "x", "a", "m", "p", "l", "e", "/", "s", "i", "g", "n", "u", "p">>)
PageTitle == S(<<"C", "a", "f", "e-acute">>)
UserAgent == S(<<"M", "o", "z", "i", "l", "l", "a", "/", "5", ".", "0">>)

\* the data of one control, as FormControlInspector extracts it; element
\* names the DOM element (0 when the control comes from a snapshot)
Metadata(isDisabled, isReadonly, isRequired, placeholder, className) ==
  [isDisabled |-> isDisabled, isReadonly |-> isReadonly, isRequired |-> isRequired,
   placeholder |-> placeholder, className |-> className, material |-> FALSE,
   matLabel |-> <<>>, matHint |-> <<>>, matError |-> <<>>]

\* ctrl => ({ id, type, name, value, path, tagName, attributes, validators,
\* metadata }): the fields a snapshot keeps (2469-2479, 313-323)
SnapshotControl(ctrl) ==
  [id |-> ctrl.id, type |-> ctrl.type, name |-> ctrl.name, value |-> ctrl.value,
   path |-> ctrl.path, tagName |-> ctrl.tagName, attributes |-> ctrl.attributes,
   validators |-> ctrl.validators, metadata |-> ctrl.metadata, element |-> 0]

\* Controls handed to the encoder: the text input and the checkbox of a
\* sign-up form, a textarea whose value needs escaping and two UTF-8 bytes
\* for one unit, and two textareas with long values
CodecEmail ==
  [id |-> S(<<"c", "t", "r", "l", "_", "1", "_", "a">>), type |-> S(<<"g", "e", "n", "e", "r", "i", "c", "_", "f", "o", "r", "m", "_", "c", "o", "n", "t", "r", "o", "l">>), element |-> 0,
   tagName |-> S(<<"i", "n", "p", "u", "t">>), name |-> S(<<"e", "m", "a", "i", "l">>), value |-> JsStr(S(<<"a", "@", "b", ".", "c", "o", "m">>)),
   attributes |-> <<<<S(<<"t", "y", "p", "e">>), S(<<"t", "e", "x", "t">>)>>, <<S(<<"n", "a", "m", "e">>), S(<<"e", "m", "a", "i", "l">>)>>>>,
   validators |-> <<S(<<"r", "e", "q", "u", "i", "r", "e", "d">>)>>, path |-> S(<<"h", "t", "m", "l", " ", ">", " ", "b", "o", "d", "y", " ", ">", " ", "i", "n", "p", "u", "t">>),
   metadata |-> Metadata(FALSE, FALSE, TRUE, <<>>, <<>>)]

CodecSubscribe ==
  [id |-> S(<<"c", "t", "r", "l", "_", "1", "_", "b">>), type |-> S(<<"g", "e", "n", "e", "r", "i", "c", "_", "f", "o", "r", "m", "_", "c", "o", "n", "t", "r", "o", "l">>), element |-> 0,
   tagName |-> S(<<"i", "n", "p", "u", "t">>), name |-> S(<<"s", "u", "b", "s", "c", "r", "i", "b", "e">>), value |-> JsBool(TRUE),
   attributes |-> <<<<S(<<"t", "y", "p", "e">>), S(<<"c", "h", "e", "c", "k", "b", "o", "x">>)>>, <<S(<<"n", "a", "m", "e">>), S(<<"s", "u", "b", "s", "c", "r", "i", "b", "e">>)>>>>,
   validators |-> <<>>, path |-> S(<<"h", "t", "m", "l", " ", ">", " ", "b", "o", "d", "y", " ", ">", " ", "i", "n", "p", "u", "t">>),
   metadata |-> Metadata(FALSE, FALSE, FALSE, <<>>, <<>>)]

CodecNote ==
  [id |-> S(<<"c", "t", "r", "l", "_", "1", "_", "c">>), type |-> S(<<"g", "e", "n", "e", "r", "i", "c", "_", "f", "o", "r", "m", "_", "c", "o", "n", "t", "r", "o", "l">>), element |-> 0,
   tagName |-> S(<<"t", "e", "x", "t", "a", "r", "e", "a">>), name |-> S(<<"n", "o", "t", "e">>), value |-> JsStr(S(<<"\"", "e-acute", "\\", "+", "/">>)),
   attributes |-> <<<<S(<<"n", "a", "m", "e">>), S(<<"n", "o", "t", "e">>)>>>>,
   validators |-> <<>>, path |-> S(<<"h", "t", "m", "l", " ", ">", " ", "b", "o", "d", "y", " ", ">", " ", "t", "e", "x", "t", "a", "r", "e", "a">>),
   metadata |-> Metadata(FALSE, FALSE, FALSE, <<>>, <<>>)]

CodecLong == [CodecNote EXCEPT !.value = JsRepeat(Ch("x"), COMPRESSION_THRESHOLD)]
CodecHuge == [CodecNote EXCEPT !.value = JsRepeat(Ch("x"), MAX_SNAPSHOT_SIZE)]

CodecControls == {CodecEmail, CodecSubscribe, CodecNote, CodecLong, CodecHuge}

MaxControls == 2

RECURSIVE SeqsUpTo(_, _)
SeqsUpTo(set, n) ==
  IF n = 0 THEN {<<>>}
  ELSE LET shorter == SeqsUpTo(set, n - 1)
       IN shorter \cup {Append(q, x) : q \in {r \in shorter : Len(r) = n - 1}, x \in set}

\* Date.now() at the capture: two instants
Timestamps == {S(<<"1", "7", "0", "0", "0", "0", "0", "0", "0", "0", "0", "0", "0">>), S(<<"1", "7", "0", "0", "0", "7", "0", "2", "5", "4", "9", "2", "3">>)}

CodecInit ==
  /\ cryptoSubtle \in BOOLEAN
  /\ formControls \in SeqsUpTo(CodecControls, MaxControls)
  /\ now \in Timestamps
  /\ encPc = "stringify"
  /\ snapshot = NoSnapshot
  /\ jsonString = <<>>
  /\ compressed = NoValue
  /\ encoded = <<>>
  /\ token = <<>>
  /\ decPc = "idle"
  /\ encodedData = <<>>
  /\ parts = <<>>
  /\ calculatedChecksum = <<>>
  /\ decoded = NoValue
  /\ decompressed = <<>>
  /\ result = NoResult
  /\ decError = "none"

\* what the encoder leaves alone: the decoder's variables and the page
decUnchanged == <<decPc, encodedData, parts, calculatedChecksum, decoded, decompressed,
                  result, decError, pageVars>>

\* lines 2463-2482: the snapshot object and JSON.stringify
EncodeStringify ==
  /\ encPc = "stringify"
  /\ snapshot' = [version |-> VERSION, timestamp |-> now, url |-> PageUrl,
                  title |-> PageTitle, userAgent |-> UserAgent,
                  formControls |-> [i \in DOMAIN formControls |->
                                      SnapshotControl(formControls[i])]]
  /\ jsonString' = JsonSnapshot(snapshot')
  /\ encPc' = "compress"
  /\ UNCHANGED <<cryptoSubtle, formControls, now, compressed, encoded, token>>
  /\ UNCHANGED decUnchanged

\* line 2483
EncodeCompress ==
  /\ encPc = "compress"
  /\ compressed' = compressData(jsonString)
  /\ encPc' = "encodeData"
  /\ UNCHANGED <<cryptoSubtle, formControls, now, snapshot, jsonString, encoded, token>>
  /\ UNCHANGED decUnchanged

\* line 2484
EncodeEncodeData ==
  /\ encPc = "encodeData"
  /\ encoded' = encodeData(compressed)
  /\ encPc' = "checksum"
  /\ UNCHANGED <<cryptoSubtle, formControls, now, snapshot, jsonString, compressed, token>>
  /\ UNCHANGED decUnchanged

MakeToken(version, checksum, data) ==
  version \o <<SEPARATOR>> \o checksum \o <<SEPARATOR>> \o data

\* lines 2485-2487
EncodeChecksum ==
  /\ encPc = "checksum"
  /\ token' = MakeToken(VERSION, calculateChecksum(encoded, cryptoSubtle), encoded)
  /\ encPc' = "done"
  /\ UNCHANGED <<cryptoSubtle, formControls, now, snapshot, jsonString, compressed,
                 encoded>>
  /\ UNCHANGED decUnchanged

(***************************************************************************)
(* decodeFormData.  The token handed to it is the encoder's, the encoder's *)
(* with one unit of the payload replaced, the encoder's under another      *)
(* version, or a text that is no token.                                    *)
(***************************************************************************)
\* what the decoder leaves alone: the encoder's variables and the page
encUnchanged == <<cryptoSubtle, formControls, now, encPc, snapshot, jsonString,
                  compressed, encoded, token, pageVars>>

TamperWindow == 2
\* the unit written over a payload unit: the separator, two units of the
\* base64url alphabet and one outside it
TamperUnits == {SEPARATOR, Ch("A"), Ch("u"), Ch("!")}
OtherVersions == {S(<<"2", ".", "0">>), S(<<"1", ".", "0", ".", "0">>), <<>>}
ClipboardTexts == {S(<<"h", "e", "l", "l", "o">>), S(<<"1", ".", "0", "|", "a", "b", "c">>)}

\* the positions of the payload the model replaces: its first and its last
\* TamperWindow units
TamperPositions(data) ==
  {i \in DOMAIN data : i <= TamperWindow \/ i > Len(data) - TamperWindow}

ReplaceAt(s, i, c) == [s EXCEPT ![i] = c]

DecodeBegin(text) ==
  /\ encPc = "done"
  /\ decPc = "idle"
  /\ encodedData' = text
  /\ decPc' = "split"
  /\ UNCHANGED encUnchanged
  /\ UNCHANGED <<parts, calculatedChecksum, decoded, decompressed, result, decError>>

DecodeOwnToken == DecodeBegin(token)

DecodeTamperedPayload ==
  \E i \in TamperPositions(encoded), c \in TamperUnits :
    /\ c # encoded[i]
    /\ DecodeBegin(MakeToken(VERSION, Split(token, SEPARATOR)[2], ReplaceAt(encoded, i, c)))

DecodeOtherVersion ==
  \E v \in OtherVersions :
    DecodeBegin(MakeToken(v, Split(token, SEPARATOR)[2], encoded))

DecodeClipboardText == \E text \in ClipboardTexts : DecodeBegin(text)

\* a well-formed token of this version that carries the JSON text {}
EmptyObjectPayload == EncodeString(S(<<"{", "}">>))
DecodeEmptyObjectToken ==
  DecodeBegin(MakeToken(VERSION, calculateChecksum(EmptyObjectPayload, cryptoSubtle),
                        EmptyObjectPayload))

\* lines 2523-2526: whatever is thrown is caught and thrown again behind a
\* fixed prefix
Throw(message) ==
  /\ decPc' = "failed"
  /\ decError' = "Data decoding failed: " \o message

\* lines 2501-2504
DecodeSplit ==
  /\ decPc = "split"
  /\ parts' = Split(encodedData, SEPARATOR)
  /\ IF Len(parts') # 3
     THEN Throw("Invalid encoded data format")
     ELSE decPc' = "version" /\ UNCHANGED decError
  /\ UNCHANGED encUnchanged
  /\ UNCHANGED <<encodedData, calculatedChecksum, decoded, decompressed, result>>

\* decodeFormData without lines 2508-2510: the version segment is not looked at
DecodeVersionSkipped ==
  /\ decPc = "version"
  /\ decPc' = "checksum"
  /\ UNCHANGED encUnchanged
  /\ UNCHANGED <<encodedData, parts, calculatedChecksum, decoded, decompressed, result,
                 decError>>

\* lines 2506-2510
DecodeVersion ==
  /\ decPc = "version"
  /\ IF parts[1] # VERSION
     THEN Throw("Unsupported version")
     ELSE decPc' = "checksum" /\ UNCHANGED decError
  /\ UNCHANGED encUnchanged
  /\ UNCHANGED <<encodedData, parts, calculatedChecksum, decoded, decompressed, result>>

\* decodeFormData without the comparison of line 2514: the checksum is
\* recomputed and the payload decoded whatever it is
DecodeChecksumUnchecked ==
  /\ decPc = "checksum"
  /\ calculatedChecksum' = calculateChecksum(parts[3], cryptoSubtle)
  /\ decPc' = "decodeData"
  /\ UNCHANGED encUnchanged
  /\ UNCHANGED <<encodedData, parts, decoded, decompressed, result, decError>>

\* lines 2513-2516
DecodeChecksum ==
  /\ decPc = "checksum"
  /\ calculatedChecksum' = calculateChecksum(parts[3], cryptoSubtle)
  /\ IF parts[2] # calculatedChecksum'
     THEN Throw("Data integrity check failed")
     ELSE decPc' = "decodeData" /\ UNCHANGED decError
  /\ UNCHANGED encUnchanged
  /\ UNCHANGED <<encodedData, parts, decoded, decompressed, result>>

\* line 2518, decodeData (2636-2641): atob throws on a unit outside the
\* alphabet, decodeURIComponent on bytes that are not UTF-8
DecodeDecodeData ==
  /\ decPc = "decodeData"
  /\ LET padded == DecodePadded(parts[3])
     IN IF ~AtobOk(padded)
        THEN Throw("InvalidCharacterError") /\ UNCHANGED decoded
        ELSE IF ~Utf8WellFormed(AtobBytes(padded))
        THEN Throw("URIError") /\ UNCHANGED decoded
        ELSE /\ decoded' = StringValue(Utf8Decode(AtobBytes(padded)))
             /\ decPc' = "decompress"
             /\ UNCHANGED decError
  /\ UNCHANGED encUnchanged
  /\ UNCHANGED <<encodedData, parts, calculatedChecksum, decompressed, result>>

\* line 2519
DecodeDecompress ==
  /\ decPc = "decompress"
  /\ decompressed' = decompressData(decoded)
  /\ decPc' = "parse"
  /\ UNCHANGED encUnchanged
  /\ UNCHANGED <<encodedData, parts, calculatedChecksum, decoded, result, decError>>

\* JSON.parse inverts JSON.stringify: on the text of the snapshot it
\* returns the snapshot, on the text of a Uint8Array the index-keyed object,
\* on {} an object without fields
EmptyObjectText == Lit(S(<<"{", "}">>))
ParsesToSnapshot(text) == text = jsonString
ParsesToIndexed(text) ==
  compressed.type = "Uint8Array" /\ text = JsonUint8Array(compressed.bytes)
ParsesToEmptyObject(text) == text = EmptyObjectText
JsonParses(text) ==
  ParsesToSnapshot(text) \/ ParsesToIndexed(text) \/ ParsesToEmptyObject(text)

\* the last unit of a text
LastUnit(text) == text[Len(text)][1]

\* No JSON text: an empty text, or one that opens an object or an array and
\* does not end with the closing bracket
NoJsonText(text) ==
  \/ text = <<>>
  \/ text[1][1] = Ch("{") /\ LastUnit(text) # Ch("}")
  \/ text[1][1] = Ch("[") /\ LastUnit(text) # Ch("]")

\* lines 2520-2522
DecodeParse ==
  /\ decPc = "parse"
  /\ JsonParses(decompressed)
  /\ result' = IF ParsesToSnapshot(decompressed) THEN SnapshotResult(snapshot)
               ELSE IF ParsesToIndexed(decompressed) THEN IndexedResult(compressed.bytes)
               ELSE ForeignResult
  /\ decPc' = "done"
  /\ UNCHANGED encUnchanged
  /\ UNCHANGED <<encodedData, parts, calculatedChecksum, decoded, decompressed, decError>>

\* line 2520 on a text that is no JSON text: JSON.parse throws a SyntaxError
DecodeParseThrows ==
  /\ decPc = "parse"
  /\ ~JsonParses(decompressed)
  /\ NoJsonText(decompressed)
  /\ Throw("SyntaxError")
  /\ UNCHANGED encUnchanged
  /\ UNCHANGED <<encodedData, parts, calculatedChecksum, decoded, decompressed, result>>

CodecNext ==
  \/ EncodeStringify
  \/ EncodeCompress
  \/ EncodeEncodeData
  \/ EncodeChecksum
  \/ DecodeOwnToken
  \/ DecodeTamperedPayload
  \/ DecodeOtherVersion
  \/ DecodeClipboardText
  \/ DecodeEmptyObjectToken
  \/ DecodeSplit
  \/ DecodeVersion
  \/ DecodeChecksum
  \/ DecodeDecodeData
  \/ DecodeDecompress
  \/ DecodeParse
  \/ DecodeParseThrows

(***************************************************************************)
(* The page.  A document is a sequence of elements in document order; an   *)
(* element has a tag, a parent (0 for the root), its attributes in         *)
(* document order, with lowercase names as an HTML document keeps them,    *)
(* and the state a form control holds besides its attributes.              *)
(***************************************************************************)
Element(tagName, parent, attributes) ==
  [tagName |-> tagName, parent |-> parent, attributes |-> attributes,
   value |-> <<>>, checked |-> FALSE, options |-> <<>>, selectedIndex |-> -1,
   textContent |-> <<>>]

Option(value, textContent) == [value |-> value, textContent |-> textContent]

T_input == S(<<"i", "n", "p", "u", "t">>)
T_select == S(<<"s", "e", "l", "e", "c", "t">>)
T_textarea == S(<<"t", "e", "x", "t", "a", "r", "e", "a">>)
T_matSelect == S(<<"m", "a", "t", "-", "s", "e", "l", "e", "c", "t">>)
T_matFormField == S(<<"m", "a", "t", "-", "f", "o", "r", "m", "-", "f", "i", "e", "l", "d">>)
T_matOption == S(<<"m", "a", "t", "-", "o", "p", "t", "i", "o", "n">>)
T_checkbox == S(<<"c", "h", "e", "c", "k", "b", "o", "x">>)
T_radio == S(<<"r", "a", "d", "i", "o">>)

\* element.hasAttribute(name), element.getAttribute(name) (absent: empty)
HasAttribute(el, name) == \E i \in DOMAIN el.attributes : el.attributes[i][1] = name
GetAttribute(el, name) ==
  IF HasAttribute(el, name)
  THEN el.attributes[CHOOSE i \in DOMAIN el.attributes : el.attributes[i][1] = name][2]
  ELSE <<>>

\* element.removeAttribute(name)
RemoveAttribute(el, name) ==
  [el EXCEPT !.attributes = SelectSeq(el.attributes, LAMBDA a : a[1] # name)]

\* element.setAttribute(name, value): in place, or appended
SetAttribute(el, name, value) ==
  IF HasAttribute(el, name)
  THEN [el EXCEPT !.attributes =
          [i \in DOMAIN el.attributes |->
             IF el.attributes[i][1] = name THEN <<name, value>> ELSE el.attributes[i]]]
  ELSE [el EXCEPT !.attributes = Append(el.attributes, <<name, value>>)]

IsInput(el) == el.tagName = T_input
IsFormControl(el) == el.tagName \in {T_input, T_select, T_textarea}

\* input.type: the type attribute when it names a state, else text
InputTypes == {S(<<"t", "e", "x", "t">>), S(<<"e", "m", "a", "i", "l">>), S(<<"u", "r", "l">>), S(<<"n", "u", "m", "b", "e", "r">>), S(<<"h", "i", "d", "d", "e", "n">>), S(<<"s", "u", "b", "m", "i", "t">>), S(<<"b", "u", "t", "t", "o", "n">>),
               S(<<"r", "e", "s", "e", "t">>), T_checkbox, T_radio}
ElementType(el) ==
  IF IsInput(el)
  THEN IF GetAttribute(el, S(<<"t", "y", "p", "e">>)) \in InputTypes THEN GetAttribute(el, S(<<"t", "y", "p", "e">>)) ELSE S(<<"t", "e", "x", "t">>)
  ELSE IF el.tagName = T_select THEN S(<<"s", "e", "l", "e", "c", "t", "-", "o", "n", "e">>)
  ELSE IF el.tagName = T_textarea THEN T_textarea
  ELSE <<>>

\* the inputs whose value IDL attribute is the value content attribute
\* (HTML: value mode "default")
DefaultModeTypes == {S(<<"h", "i", "d", "d", "e", "n">>), S(<<"s", "u", "b", "m", "i", "t">>), S(<<"b", "u", "t", "t", "o", "n">>), S(<<"r", "e", "s", "e", "t">>)}
IsDefaultMode(el) == IsInput(el) /\ ElementType(el) \in DefaultModeTypes
IsCheckable(el) == IsInput(el) /\ ElementType(el) \in {T_checkbox, T_radio}

\* element.disabled, readOnly, required, name, id, className, placeholder:
\* reflected attributes of form controls, undefined on other elements
ElementDisabled(el) == IsFormControl(el) /\ HasAttribute(el, S(<<"d", "i", "s", "a", "b", "l", "e", "d">>))
ElementReadOnly(el) == el.tagName \in {T_input, T_textarea} /\ HasAttribute(el, S(<<"r", "e", "a", "d", "o", "n", "l", "y">>))
ElementRequired(el) == IsFormControl(el) /\ HasAttribute(el, S(<<"r", "e", "q", "u", "i", "r", "e", "d">>))
ElementName(el) == IF IsFormControl(el) THEN GetAttribute(el, S(<<"n", "a", "m", "e">>)) ELSE <<>>
ElementId(el) == GetAttribute(el, S(<<"i", "d">>))
ElementClassName(el) == GetAttribute(el, S(<<"c", "l", "a", "s", "s">>))
ElementPlaceholder(el) ==
  IF el.tagName \in {T_input, T_textarea} THEN GetAttribute(el, S(<<"p", "l", "a", "c", "e", "h", "o", "l", "d", "e", "r">>)) ELSE <<>>

\* element.value
ElementValue(el) ==
  IF IsDefaultMode(el) THEN GetAttribute(el, S(<<"v", "a", "l", "u", "e">>))
  ELSE IF IsCheckable(el)
  THEN IF HasAttribute(el, S(<<"v", "a", "l", "u", "e">>)) THEN GetAttribute(el, S(<<"v", "a", "l", "u", "e">>)) ELSE S(<<"o", "n">>)
  ELSE IF el.tagName = T_select
  THEN IF el.selectedIndex >= 0 THEN el.options[el.selectedIndex + 1].value ELSE <<>>
  ELSE el.value

\* the index of the first option with that value, -1 when there is none
OptionIndex(el, value) ==
  IF \E i \in DOMAIN el.options : el.options[i].value = value
  THEN (CHOOSE i \in DOMAIN el.options :
          /\ el.options[i].value = value
          /\ \A j \in 1..(i - 1) : el.options[j].value # value) - 1
  ELSE -1

\* element.value = text
SetElementValue(el, text) ==
  IF IsDefaultMode(el) \/ IsCheckable(el) THEN SetAttribute(el, S(<<"v", "a", "l", "u", "e">>), text)
  ELSE IF el.tagName = T_select THEN [el EXCEPT !.selectedIndex = OptionIndex(el, text)]
  ELSE [el EXCEPT !.value = text]

(***************************************************************************)
(* FormControlInspector (content-script.js 2060-2450).                     *)
(***************************************************************************)
\* generateControlId: `ctrl_${Date.now()}_${Math.random()...substr(2, 9)}`.
\* Math.random is a stream of 9-unit texts; the k-th call of a pass takes
\* the k-th text, here the stream's stem followed by the letter k
Letters == S(<<"a", "b", "c", "d", "e", "f", "g", "h", "i", "j", "k", "l", "m", "n", "o", "p", "q", "r", "s", "t", "u", "v", "w", "x", "y", "z">>)
RandomStreams == {S(<<"k", "3", "j", "9", "x", "2", "m", "1">>), S(<<"z", "8", "f", "0", "q", "4", "w", "7">>)}
generateControlId(clock, stream, k) ==
  S(<<"c", "t", "r", "l", "_">>) \o clock \o S(<<"_">>) \o stream \o <<Letters[((k - 1) % 26) + 1]>>
  \o (IF k > 26 THEN Decimal((k - 1) \div 26) ELSE <<>>)

extractElementValue(el) ==
  IF IsCheckable(el) THEN JsBool(el.checked) ELSE JsStr(ElementValue(el))

\* an object keyed by attribute name, in the order of element.attributes
extractElementAttributes(el) == el.attributes

\* input.minLength and maxLength are -1 without the attribute, and -1 is
\* truthy; other elements than input and textarea have neither
LengthText(el, name) ==
  IF el.tagName \in {T_input, T_textarea}
  THEN IF HasAttribute(el, name) THEN GetAttribute(el, name) ELSE S(<<"-", "1">>)
  ELSE S(<<"0">>)

Validator(present, text) == IF present THEN <<text>> ELSE <<>>

extractValidators(el) ==
  Validator(ElementRequired(el), S(<<"r", "e", "q", "u", "i", "r", "e", "d">>))
  \o Validator(IsInput(el) /\ GetAttribute(el, S(<<"p", "a", "t", "t", "e", "r", "n">>)) # <<>>,
               S(<<"p", "a", "t", "t", "e", "r", "n", ":">>) \o GetAttribute(el, S(<<"p", "a", "t", "t", "e", "r", "n">>)))
  \o Validator(LengthText(el, S(<<"m", "i", "n", "l", "e", "n", "g", "t", "h">>)) # S(<<"0">>), S(<<"m", "i", "n", "L", "e", "n", "g", "t", "h", ":">>) \o LengthText(el, S(<<"m", "i", "n", "l", "e", "n", "g", "t", "h">>)))
  \o Validator(LengthText(el, S(<<"m", "a", "x", "l", "e", "n", "g", "t", "h">>)) # S(<<"0">>), S(<<"m", "a", "x", "L", "e", "n", "g", "t", "h", ":">>) \o LengthText(el, S(<<"m", "a", "x", "l", "e", "n", "g", "t", "h">>)))
  \o Validator(IsInput(el) /\ GetAttribute(el, S(<<"m", "i", "n">>)) # <<>>, S(<<"m", "i", "n", ":">>) \o GetAttribute(el, S(<<"m", "i", "n">>)))
  \o Validator(IsInput(el) /\ GetAttribute(el, S(<<"m", "a", "x">>)) # <<>>, S(<<"m", "a", "x", ":">>) \o GetAttribute(el, S(<<"m", "a", "x">>)))
  \o Validator(ElementType(el) = S(<<"e", "m", "a", "i", "l">>), S(<<"e", "m", "a", "i", "l">>))
  \o Validator(ElementType(el) = S(<<"u", "r", "l">>), S(<<"u", "r", "l">>))
  \o Validator(ElementType(el) = S(<<"n", "u", "m", "b", "e", "r">>), S(<<"n", "u", "m", "b", "e", "r">>))

\* className of an SVG element is an SVGAnimatedString, an object with no
\* split method: current.className.split (2414, form-inspector.js 945)
\* throws a TypeError for it
T_svg == S(<<"s", "v", "g">>)
T_foreignObject == S(<<"f", "o", "r", "e", "i", "g", "n", "o", "b", "j", "e", "c", "t">>)
IsSVGElement(el) == el.tagName \in {T_svg, T_foreignObject}
ClassNameThrows(el) == ElementId(el) = <<>> /\ IsSVGElement(el)

\* generateElementPath (2404-2422) throws: it walks up to the root
RECURSIVE PathThrows(_, _)
PathThrows(document, e) ==
  /\ e # 0
  /\ (ClassNameThrows(document[e]) \/ PathThrows(document, document[e].parent))

\* tag, then #id, or else .class with the blanks of className turned to dots
PathSelector(el) ==
  el.tagName \o
  (IF ElementId(el) # <<>> THEN S(<<"#">>) \o ElementId(el)
   ELSE IF ElementClassName(el) # <<>>
   THEN S(<<".">>) \o ReplaceAll(ElementClassName(el), Ch(" "), Ch("."))
   ELSE <<>>)

RECURSIVE PathSelectors(_, _)
PathSelectors(document, e) ==
  IF e = 0 THEN <<>>
  ELSE Append(PathSelectors(document, document[e].parent), PathSelector(document[e]))

generateElementPath(document, e) == Join(PathSelectors(document, e), S(<<" ", ">", " ">>))

RECURSIVE IsDescendant(_, _, _)
IsDescendant(document, e, ancestor) ==
  /\ document[e].parent # 0
  /\ \/ document[e].parent = ancestor
     \/ IsDescendant(document, document[e].parent, ancestor)

\* document.querySelectorAll: the matching elements in document order
Indices(document) == [i \in DOMAIN document |-> i]
QuerySelectorAll(document, Matches(_)) ==
  SelectSeq(Indices(document), LAMBDA e : Matches(document[e]))

\* formField.querySelector(tag)?.textContent || ''
ChildText(document, formField, tagName) ==
  LET found == SelectSeq(Indices(document),
                         LAMBDA e : /\ document[e].tagName = tagName
                                    /\ IsDescendant(document, e, formField))
  IN IF found = <<>> THEN <<>> ELSE document[found[1]].textContent

ElementMetadata(el) ==
  Metadata(ElementDisabled(el), ElementReadOnly(el), ElementRequired(el),
           ElementPlaceholder(el), ElementClassName(el))

\* the fields the five extract functions have in common
ControlData(document, e, id, type, name) ==
  [id |-> id, type |-> type, element |-> e, tagName |-> document[e].tagName,
   name |-> name, value |-> extractElementValue(document[e]),
   attributes |-> extractElementAttributes(document[e]),
   validators |-> extractValidators(document[e]),
   path |-> generateElementPath(document, e),
   metadata |-> ElementMetadata(document[e])]

Or(a, b) == IF a # <<>> THEN a ELSE b

extractAngularFormControlData(document, e, id) ==
  ControlData(document, e, id, S(<<"a", "n", "g", "u", "l", "a", "r", "_", "f", "o", "r", "m", "_", "c", "o", "n", "t", "r", "o", "l">>),
              GetAttribute(document[e], S(<<"f", "o", "r", "m", "c", "o", "n", "t", "r", "o", "l">>)))

extractAngularFormControlNameData(document, e, id) ==
  ControlData(document, e, id, S(<<"a", "n", "g", "u", "l", "a", "r", "_", "f", "o", "r", "m", "_", "c", "o", "n", "t", "r", "o", "l", "_", "n", "a", "m", "e">>),
              GetAttribute(document[e], S(<<"f", "o", "r", "m", "c", "o", "n", "t", "r", "o", "l", "n", "a", "m", "e">>)))

extractNgModelData(document, e, id) ==
  ControlData(document, e, id, S(<<"a", "n", "g", "u", "l", "a", "r", "_", "n", "g", "_", "m", "o", "d", "e", "l">>),
              Or(GetAttribute(document[e], S(<<"n", "g", "m", "o", "d", "e", "l">>)), ElementName(document[e])))

extractGenericFormControlData(document, e, id) ==
  ControlData(document, e, id, S(<<"g", "e", "n", "e", "r", "i", "c", "_", "f", "o", "r", "m", "_", "c", "o", "n", "t", "r", "o", "l">>),
              Or(ElementName(document[e]), ElementId(document[e])))

extractMaterialFormControlData(document, e, formField, id) ==
  [ControlData(document, e, id, S(<<"m", "a", "t", "e", "r", "i", "a", "l", "_", "f", "o", "r", "m", "_", "c", "o", "n", "t", "r", "o", "l">>),
               Or(GetAttribute(document[e], S(<<"f", "o", "r", "m", "c", "o", "n", "t", "r", "o", "l", "n", "a", "m", "e">>)), ElementName(document[e])))
   EXCEPT !.metadata =
     [ElementMetadata(document[e]) EXCEPT
        !.material = TRUE,
        !.matLabel = ChildText(document, formField, S(<<"m", "a", "t", "-", "l", "a", "b", "e", "l">>)),
        !.matHint = ChildText(document, formField, S(<<"m", "a", "t", "-", "h", "i", "n", "t">>)),
        !.matError = ChildText(document, formField, S(<<"m", "a", "t", "-", "e", "r", "r", "o", "r">>))]]

\* The calls of the three passes in their order: <<pass, element, form field>>
AngularCalls(document) ==
  [k \in DOMAIN QuerySelectorAll(document, LAMBDA el : HasAttribute(el, S(<<"f", "o", "r", "m", "c", "o", "n", "t", "r", "o", "l">>))) |->
     <<"formControl",
       QuerySelectorAll(document, LAMBDA el : HasAttribute(el, S(<<"f", "o", "r", "m", "c", "o", "n", "t", "r", "o", "l">>)))[k], 0>>]
  \o
  [k \in DOMAIN QuerySelectorAll(document, LAMBDA el : HasAttribute(el, S(<<"f", "o", "r", "m", "c", "o", "n", "t", "r", "o", "l", "n", "a", "m", "e">>))) |->
     <<"formControlName",
       QuerySelectorAll(document, LAMBDA el : HasAttribute(el, S(<<"f", "o", "r", "m", "c", "o", "n", "t", "r", "o", "l", "n", "a", "m", "e">>)))[k], 0>>]
  \o
  [k \in DOMAIN QuerySelectorAll(document, LAMBDA el : HasAttribute(el, S(<<"n", "g", "m", "o", "d", "e", "l">>))) |->
     <<"ngModel",
       QuerySelectorAll(document, LAMBDA el : HasAttribute(el, S(<<"n", "g", "m", "o", "d", "e", "l">>)))[k], 0>>]

IsAngular(el) ==
  HasAttribute(el, S(<<"f", "o", "r", "m", "c", "o", "n", "t", "r", "o", "l">>)) \/ HasAttribute(el, S(<<"f", "o", "r", "m", "c", "o", "n", "t", "r", "o", "l", "n", "a", "m", "e">>))
    \/ HasAttribute(el, S(<<"n", "g", "m", "o", "d", "e", "l">>))

GenericCalls(document) ==
  LET found == QuerySelectorAll(document, LAMBDA el : IsFormControl(el) /\ ~IsAngular(el))
  IN [k \in DOMAIN found |-> <<"generic", found[k], 0>>]

MaterialTags == {T_input, T_select, T_textarea, T_matSelect}
MaterialCalls(document) ==
  LET fields == QuerySelectorAll(document, LAMBDA el : el.tagName = T_matFormField)
      Inputs(f) == SelectSeq(Indices(document),
                             LAMBDA e : /\ document[e].tagName \in MaterialTags
                                        /\ IsDescendant(document, e, f))
      filled == SelectSeq(fields, LAMBDA f : Inputs(f) # <<>>)
  IN [k \in DOMAIN filled |-> <<"material", Inputs(filled[k])[1], filled[k]>>]

Extract(document, call, id) ==
  IF call[1] = "formControl" THEN extractAngularFormControlData(document, call[2], id)
  ELSE IF call[1] = "formControlName"
  THEN extractAngularFormControlNameData(document, call[2], id)
  ELSE IF call[1] = "ngModel" THEN extractNgModelData(document, call[2], id)
  ELSE IF call[1] = "generic" THEN extractGenericFormControlData(document, call[2], id)
  ELSE extractMaterialFormControlData(document, call[2], call[3], id)

\* every extract...Data returns null when a step of it throws (2168-2171,
\* 2203-2206, 2237-2240, 2299-2302, 2362-2365) and the passes keep what is
\* not null
ExtractThrows(document, call) == PathThrows(document, call[2])

\* inspectAllFormControls: the controls of the three passes, an element kept
\* the first time it is met (processedElements).  An element whose
\* extraction throws is met in no pass: the path is all that throws, and
\* it is the same in every pass
InspectorCalls(document) ==
  AngularCalls(document) \o GenericCalls(document) \o MaterialCalls(document)
FirstCalls(calls) ==
  SelectSeq(Indices(calls), LAMBDA k : \A j \in 1..(k - 1) : calls[j][2] # calls[k][2])

\* inspectAllFormControls without processedElements: every returned control
inspectAllFormControlsUnfiltered(document, clock, stream) ==
  LET calls == InspectorCalls(document)
      returned == SelectSeq(Indices(calls), LAMBDA k : ~ExtractThrows(document, calls[k]))
  IN [n \in DOMAIN returned |->
        Extract(document, calls[returned[n]], generateControlId(clock, stream, returned[n]))]

ReturnedCalls(document, calls) ==
  SelectSeq(FirstCalls(calls), LAMBDA k : ~ExtractThrows(document, calls[k]))

inspectAllFormControls(document, clock, stream) ==
  LET calls == InspectorCalls(document)
      first == ReturnedCalls(document, calls)
  IN [n \in DOMAIN first |->
        Extract(document, calls[first[n]], generateControlId(clock, stream, first[n]))]

\* formControls.length: it does not depend on the ids
ControlCount(document) == Len(ReturnedCalls(document, InspectorCalls(document)))

(***************************************************************************)
(* AngularFormSnapshotContent: generateControlKey, restoreControlValue and *)
(* what it calls (content-script.js 489-575, 2755-2775).                   *)
(***************************************************************************)
\* generateControlKey with the control's id among the parts
generateControlKeyWithId(control) ==
  LET keyParts == <<control.id, control.name, control.tagName, control.path,
                    Explode(JsonAttributes(control.attributes))>>
  IN Join(SelectSeq(keyParts, LAMBDA part : part # <<>>), <<SEPARATOR>>)

\* lines 565-575: the parts that are not empty, joined by '|'
generateControlKey(control) ==
  LET keyParts == <<control.name, control.tagName, control.path,
                    Explode(JsonAttributes(control.attributes))>>
  IN Join(SelectSeq(keyParts, LAMBDA part : part # <<>>), <<SEPARATOR>>)

\* Boolean(value), String(value), value || ''
JsTruthy(v) == IF v.t = "boolean" THEN v.b ELSE v.s # <<>>
JsText(v) ==
  IF v.t = "boolean" THEN (IF v.b THEN S(<<"t", "r", "u", "e">>) ELSE S(<<"f", "a", "l", "s", "e">>))
  ELSE IF v.n = 0 THEN v.s
  ELSE Repeat(v.s[1], v.n)
JsOrEmpty(v) == IF JsTruthy(v) THEN JsText(v) ELSE <<>>

\* String.prototype.trim
RECURSIVE Trim(_)
Trim(s) ==
  IF s # <<>> /\ s[1] = Ch(" ") THEN Trim(Tail(s))
  ELSE IF s # <<>> /\ s[Len(s)] = Ch(" ") THEN Trim(SubSeq(s, 1, Len(s) - 1))
  ELSE s

\* element.checked = b: checking a radio button unchecks the other radio
\* buttons of its name
SetChecked(document, e, b) ==
  [i \in DOMAIN document |->
     IF i = e THEN [document[i] EXCEPT !.checked = b]
     ELSE IF /\ b
             /\ ElementType(document[e]) = T_radio
             /\ IsInput(document[i]) /\ ElementType(document[i]) = T_radio
             /\ ElementName(document[i]) = ElementName(document[e])
             /\ ElementName(document[e]) # <<>>
     THEN [document[i] EXCEPT !.checked = FALSE]
     ELSE document[i]]

SetValue(document, e, text) == [document EXCEPT ![e] = SetElementValue(document[e], text)]

\* lines 525-537: the first option whose value or text is the value
MatchingOptions(el, value) ==
  SelectSeq(Indices(el.options),
            LAMBDA i : /\ value.t = "string"
                       /\ \/ el.options[i].value = JsText(value)
                          \/ el.options[i].textContent = JsText(value))

restoreSelectValue(document, e, value) ==
  [document EXCEPT ![e].selectedIndex = MatchingOptions(document[e], value)[1] - 1]

\* lines 2755-2775: the value is written again, then input, change, blur
\* (and ng-change) are dispatched; the page has no listener that writes to
\* a control
triggerChangeEvent(document, e, value) ==
  IF ElementType(document[e]) \in {T_checkbox, T_radio}
  THEN SetChecked(document, e, JsTruthy(value))
  ELSE SetValue(document, e, JsText(value))

\* lines 544-558: the mat-option elements of the document that a mat-select
\* value is looked up in
MatOptionsFor(document, e, value) ==
  IF document[e].tagName = T_matSelect
  THEN SelectSeq(Indices(document),
                 LAMBDA o : /\ document[o].tagName = T_matOption
                            /\ value.t = "string"
                            /\ \/ GetAttribute(document[o], S(<<"v", "a", "l", "u", "e">>)) = JsText(value)
                               \/ Trim(document[o].textContent) = JsText(value))
  ELSE <<>>

\* lines 2766-2775: the events triggerChangeEvent dispatches on the element
EventTypes(el) ==
  <<"input", "change", "blur">>
  \o (IF HasAttribute(el, S(<<"f", "o", "r", "m", "c", "o", "n", "t", "r", "o", "l", "n", "a", "m", "e">>)) \/ HasAttribute(el, S(<<"n", "g", "m", "o", "d", "e", "l">>))
      THEN <<"ng-change">> ELSE <<>>)

\* lines 489-518.  The outcome: the message thrown (empty when none), the
\* document after the writes, the events dispatched on the element, the
\* mat-option clicked (0 when none)
E_readonly == S(<<"C", "o", "n", "t", "r", "o", "l", " ", "i", "s", " ", "r", "e", "a", "d", "o", "n", "l", "y", " ", "o", "r", " ", "d", "i", "s", "a", "b", "l", "e", "d">>)
E_option == S(<<"O", "p", "t", "i", "o", "n", " ", "n", "o", "t", " ", "f", "o", "u", "n", "d", ":", " ">>)

ControlOutcome(message, doc, types, option) ==
  [error |-> message, document |-> doc, events |-> types, click |-> option]

\* lines 500-517: the write, the notification and the Material step
WriteControlValue(document, currentControl, snapshotControl) ==
  LET e == currentControl.element
      el == document[e]
      value == snapshotControl.value
      Outcome(message, doc, types, option) == ControlOutcome(message, doc, types, option)
  IN IF el.tagName = T_select /\ ~IsCheckable(el) /\ MatchingOptions(el, value) = <<>>
     THEN Outcome(E_option \o JsText(value), document, <<>>, 0)
     ELSE LET written ==
                IF IsCheckable(el) THEN SetChecked(document, e, JsTruthy(value))
                ELSE IF el.tagName = T_select THEN restoreSelectValue(document, e, value)
                ELSE SetValue(document, e, JsOrEmpty(value))
              notified == triggerChangeEvent(written, e, value)
              matOptions == IF currentControl.type = S(<<"m", "a", "t", "e", "r", "i", "a", "l", "_", "f", "o", "r", "m", "_", "c", "o", "n", "t", "r", "o", "l">>)
                            THEN MatOptionsFor(notified, e, value)
                            ELSE <<>>
          IN Outcome(<<>>, notified, EventTypes(el),
                     IF matOptions = <<>> THEN 0 ELSE matOptions[1])

\* restoreControlValue without the test of lines 497-499
restoreControlValueUnguarded(document, currentControl, snapshotControl) ==
  WriteControlValue(document, currentControl, snapshotControl)

\* lines 489-518
restoreControlValue(document, currentControl, snapshotControl) ==
  IF \/ ElementReadOnly(document[currentControl.element])
     \/ ElementDisabled(document[currentControl.element])
  THEN ControlOutcome(E_readonly, document, <<>>, 0)
  ELSE WriteControlValue(document, currentControl, snapshotControl)

(***************************************************************************)
(* The page of the model: a sign-up form with a text input, a checkbox, a  *)
(* select, an input bound by formControlName, a submit button, two rows    *)
(* with the same input, and a Material select; its option is in an overlay *)
(* outside the form.                                                       *)
(***************************************************************************)
WithValue(el, text) == [el EXCEPT !.value = text]
WithText(el, text) == [el EXCEPT !.textContent = text]

PlanOptions == <<Option(S(<<"b", "a", "s", "i", "c">>), S(<<"B", "a", "s", "i", "c">>)), Option(S(<<"p", "r", "o">>), S(<<"P", "r", "o">>))>>

E_email == 4
E_subscribe == 5
E_plan == 6
E_city == 7
E_submit == 8
E_item1 == 10
E_item2 == 12
E_color == 14
E_red == 15

BasePage ==
  <<Element(S(<<"h", "t", "m", "l">>), 0, <<>>),
    Element(S(<<"b", "o", "d", "y">>), 1, <<>>),
    Element(S(<<"f", "o", "r", "m">>), 2, <<<<S(<<"i", "d">>), S(<<"s", "i", "g", "n", "u", "p">>)>>>>),
    WithValue(Element(T_input, 3, <<<<S(<<"t", "y", "p", "e">>), S(<<"t", "e", "x", "t">>)>>, <<S(<<"n", "a", "m", "e">>), S(<<"e", "m", "a", "i", "l">>)>>,
                                    <<S(<<"c", "l", "a", "s", "s">>), S(<<"f", "o", "r", "m", "-", "c", "o", "n", "t", "r", "o", "l", " ", "w", "i", "d", "e">>)>>, <<S(<<"r", "e", "q", "u", "i", "r", "e", "d">>), <<>>>>>>),
              S(<<"a", "@", "b", ".", "c", "o", "m">>)),
    Element(T_input, 3, <<<<S(<<"t", "y", "p", "e">>), T_checkbox>>, <<S(<<"n", "a", "m", "e">>), S(<<"s", "u", "b", "s", "c", "r", "i", "b", "e">>)>>>>),
    [Element(T_select, 3, <<<<S(<<"n", "a", "m", "e">>), S(<<"p", "l", "a", "n">>)>>>>) EXCEPT
       !.options = PlanOptions, !.selectedIndex = 0],
    WithValue(Element(T_input, 3, <<<<S(<<"f", "o", "r", "m", "c", "o", "n", "t", "r", "o", "l", "n", "a", "m", "e">>), S(<<"c", "i", "t", "y">>)>>>>), S(<<"H", "a", "n", "o", "i">>)),
    Element(T_input, 3, <<<<S(<<"t", "y", "p", "e">>), S(<<"s", "u", "b", "m", "i", "t">>)>>>>),
    Element(S(<<"d", "i", "v">>), 3, <<<<S(<<"c", "l", "a", "s", "s">>), S(<<"r", "o", "w">>)>>>>),
    WithValue(Element(T_input, 9, <<<<S(<<"n", "a", "m", "e">>), S(<<"i", "t", "e", "m">>)>>>>), S(<<"o", "n", "e">>)),
    Element(S(<<"d", "i", "v">>), 3, <<<<S(<<"c", "l", "a", "s", "s">>), S(<<"r", "o", "w">>)>>>>),
    WithValue(Element(T_input, 11, <<<<S(<<"n", "a", "m", "e">>), S(<<"i", "t", "e", "m">>)>>>>), S(<<"t", "w", "o">>)),
    Element(T_matFormField, 3, <<>>),
    Element(T_matSelect, 13, <<<<S(<<"n", "a", "m", "e">>), S(<<"c", "o", "l", "o", "r">>)>>>>),
    WithText(Element(T_matOption, 2, <<<<S(<<"v", "a", "l", "u", "e">>), S(<<"r", "e", "d">>)>>>>), S(<<" ", "R", "e", "d", " ">>))>>

\* The page as loaded: some of its controls carry the disabled or the
\* readonly attribute
LockSets == {{}, {<<E_email, S(<<"d", "i", "s", "a", "b", "l", "e", "d">>)>>}, {<<E_city, S(<<"r", "e", "a", "d", "o", "n", "l", "y">>)>>},
             {<<E_item1, S(<<"d", "i", "s", "a", "b", "l", "e", "d">>)>>, <<E_item2, S(<<"d", "i", "s", "a", "b", "l", "e", "d">>)>>},
             {<<E_email, S(<<"d", "i", "s", "a", "b", "l", "e", "d">>)>>, <<E_city, S(<<"r", "e", "a", "d", "o", "n", "l", "y">>)>>}}

Locked(document, locks) ==
  [e \in DOMAIN document |->
     IF \E l \in locks : l[1] = e
     THEN SetAttribute(document[e], (CHOOSE l \in locks : l[1] = e)[2], <<>>)
     ELSE document[e]]

\* the same page with an id on the input of the second row
DistinctRowsPage ==
  [BasePage EXCEPT ![E_item2] = SetAttribute(BasePage[E_item2], S(<<"i", "d">>), S(<<"s", "e", "c", "o", "n", "d">>))]

\* the same page with two more Material fields: one around an input that
\* has no Angular directive, one around a textarea bound twice
E_nick == Len(BasePage) + 2
E_bio == Len(BasePage) + 4
MaterialPage ==
  BasePage \o
  <<Element(T_matFormField, 2, <<>>),
    WithValue(Element(T_input, 16, <<<<S(<<"n", "a", "m", "e">>), S(<<"n", "i", "c", "k">>)>>>>), S(<<"k", "i", "t">>)),
    Element(T_matFormField, 2, <<>>),
    WithValue(Element(T_textarea, 18, <<<<S(<<"f", "o", "r", "m", "c", "o", "n", "t", "r", "o", "l", "n", "a", "m", "e">>), S(<<"b", "i", "o">>)>>, <<S(<<"n", "g", "m", "o", "d", "e", "l">>), <<>>>>>>), S(<<"h", "e", "l", "l", "o">>))>>

Pages ==
  {Locked(page, locks) : page \in {BasePage, DistinctRowsPage, MaterialPage}, locks \in LockSets}

\* what a user types and what the page does to an element between the
\* capture and the restore
TypedTexts == {S(<<"x", "@", "y", ".", "o", "r", "g">>), <<>>}
WritableElements == {E_email, E_city, E_item1, E_color}
RestyledElements == {E_email, E_item2}
MaxDrift == 1

(***************************************************************************)
(* captureForms and restoreForms on the page.  The snapshot restoreForms   *)
(* gets is the one decodeFormData returns for the token of the capture:    *)
(* formControls with the fields encodeFormData keeps (2469-2479).  The     *)
(* notification both show is a div without form controls appended to the   *)
(* body, which no control's path or attributes depend on.                  *)
(***************************************************************************)
MaxRestores == 2

NoMap == <<>>
NoText == <<>>

\* what the browser lets the content script do: window.AngularFormSnapshotUtils
\* is there (291), navigator.clipboard.writeText resolves (586), the
\* background answers chrome.runtime.sendMessage (337), and its
\* chrome.storage.local calls resolve (service-worker.js 148-158)
Browser(utils, clipboardWrites, background, storage) ==
  [utils |-> utils, clipboardWrites |-> clipboardWrites, background |-> background,
   storage |-> storage]
Willing == Browser(TRUE, TRUE, TRUE, TRUE)
Browsers ==
  {Willing, Browser(FALSE, TRUE, TRUE, TRUE), Browser(TRUE, FALSE, TRUE, TRUE),
   Browser(TRUE, TRUE, FALSE, TRUE), Browser(TRUE, TRUE, TRUE, FALSE)}

\* options.copyToClipboard !== false, options.saveToStorage !== false (329, 334)
CaptureOptions(copyToClipboard, saveToStorage) ==
  [copyToClipboard |-> copyToClipboard, saveToStorage |-> saveToStorage]
DefaultOptions == CaptureOptions(TRUE, TRUE)

(***************************************************************************)
(* AngularFormInspector of form-inspector.js, which the manifest loads     *)
(* into every page before the content script: the pass over the reactive   *)
(* forms (223-404).                                                        *)
(***************************************************************************)
MAX_DEPTH == 10

\* generateElementPath (935-960): as above, for at most MAX_DEPTH + 1
\* elements
RECURSIVE FormPathThrows(_, _, _)
FormPathThrows(document, e, length) ==
  /\ e # 0
  /\ \/ ClassNameThrows(document[e])
     \/ /\ length + 1 <= MAX_DEPTH
        /\ FormPathThrows(document, document[e].parent, length + 1)

\* its selector (940-953): the classes that are not blank
FormPathSelector(el) ==
  LET classes == SelectSeq(Split(ElementClassName(el), Ch(" ")), LAMBDA cls : Trim(cls) # <<>>)
  IN el.tagName \o
     (IF ElementId(el) # <<>> THEN S(<<"#">>) \o ElementId(el)
      ELSE IF ElementClassName(el) # <<>> /\ classes # <<>>
      THEN S(<<".">>) \o Join(classes, S(<<".">>))
      ELSE <<>>)

RECURSIVE FormPathSelectors(_, _, _)
FormPathSelectors(document, e, length) ==
  IF e = 0 THEN <<>>
  ELSE (IF length + 1 <= MAX_DEPTH
        THEN FormPathSelectors(document, document[e].parent, length + 1) ELSE <<>>)
       \o <<FormPathSelector(document[e])>>

\* extractControlName (874-883)
extractControlName(el) ==
  Or(GetAttribute(el, S(<<"f", "o", "r", "m", "c", "o", "n", "t", "r", "o", "l", "n", "a", "m", "e">>)),
     Or(GetAttribute(el, S(<<"f", "o", "r", "m", "c", "o", "n", "t", "r", "o", "l">>)),
        Or(GetAttribute(el, S(<<"n", "g", "m", "o", "d", "e", "l">>)),
           Or(ElementName(el), Or(ElementId(el), S(<<"u", "n", "n", "a", "m", "e", "d">>))))))

\* element.classList.contains(cls)
HasClass(el, cls) ==
  \E k \in DOMAIN Split(ElementClassName(el), Ch(" ")) :
    Split(ElementClassName(el), Ch(" "))[k] = cls

\* extractControlValidation (1169-1180) on a state that starts as VALID
ControlValidationState(el) ==
  IF HasClass(el, S(<<"n", "g", "-", "i", "n", "v", "a", "l", "i", "d">>)) THEN "INVALID"
  ELSE IF HasClass(el, S(<<"n", "g", "-", "v", "a", "l", "i", "d">>)) THEN "VALID"
  ELSE IF HasClass(el, S(<<"n", "g", "-", "p", "e", "n", "d", "i", "n", "g">>)) THEN "PENDING"
  ELSE IF ElementDisabled(el) THEN "DISABLED"
  ELSE "VALID"

\* extractFormValidationState (1134-1143)
FormValidationState(el) ==
  IF HasClass(el, S(<<"n", "g", "-", "i", "n", "v", "a", "l", "i", "d">>)) THEN "INVALID"
  ELSE IF HasClass(el, S(<<"n", "g", "-", "v", "a", "l", "i", "d">>)) THEN "VALID"
  ELSE IF HasClass(el, S(<<"n", "g", "-", "p", "e", "n", "d", "i", "n", "g">>)) THEN "PENDING"
  ELSE "VALID"

\* element.closest("[formGroupName], [formArrayName]"): the element itself
\* or its nearest ancestor with one of the attributes, 0 for null
RECURSIVE ClosestGroup(_, _)
ClosestGroup(document, e) ==
  IF e = 0 THEN 0
  ELSE IF \/ HasAttribute(document[e], S(<<"f", "o", "r", "m", "g", "r", "o", "u", "p", "n", "a", "m", "e">>))
          \/ HasAttribute(document[e], S(<<"f", "o", "r", "m", "a", "r", "r", "a", "y", "n", "a", "m", "e">>))
  THEN e
  ELSE ClosestGroup(document, document[e].parent)

\* formElement.querySelectorAll("[formControlName], [formControl],
\* [formGroupName], [formArrayName]") (294-296, 1282-1284)
ReactiveControlElements(document, f) ==
  SelectSeq(Indices(document),
            LAMBDA e : /\ IsDescendant(document, e, f)
                       /\ \/ HasAttribute(document[e], S(<<"f", "o", "r", "m", "c", "o", "n", "t", "r", "o", "l", "n", "a", "m", "e">>))
                          \/ HasAttribute(document[e], S(<<"f", "o", "r", "m", "c", "o", "n", "t", "r", "o", "l">>))
                          \/ HasAttribute(document[e], S(<<"f", "o", "r", "m", "g", "r", "o", "u", "p", "n", "a", "m", "e">>))
                          \/ HasAttribute(document[e], S(<<"f", "o", "r", "m", "a", "r", "r", "a", "y", "n", "a", "m", "e">>)))

\* the first place of a sequence of booleans that is TRUE, its length plus
\* one when none is: where a loop inside a try stops
FirstThrow(throws) ==
  IF \E k \in DOMAIN throws : throws[k]
  THEN CHOOSE k \in DOMAIN throws : throws[k] /\ \A j \in 1..(k - 1) : ~throws[j]
  ELSE Len(throws) + 1

\* inspectReactiveFormControl (335-403): it throws what a step of it throws
ReactiveControlThrows(document, e) == FormPathThrows(document, e, 0)

\* lines 1286-1293: the nested elements that pass the test of closest
NestedElements(document, e) ==
  SelectSeq(ReactiveControlElements(document, e),
            LAMBDA n : ClosestGroup(document, n) = e)

RECURSIVE inspectReactiveFormControl(_, _, _)
\* inspectNestedControls (1277-1310): the catch keeps what was pushed
\* before the throw
inspectNestedControls(document, e) ==
  LET nested == NestedElements(document, e)
      stop == FirstThrow([k \in DOMAIN nested |-> ReactiveControlThrows(document, nested[k])])
  IN [k \in 1..(stop - 1) |-> inspectReactiveFormControl(document, nested[k], e)]

inspectReactiveFormControl(document, e, parentForm) ==
  [element |-> e,
   type |-> IF HasAttribute(document[e], S(<<"f", "o", "r", "m", "g", "r", "o", "u", "p", "n", "a", "m", "e">>)) THEN S(<<"r", "e", "a", "c", "t", "i", "v", "e", "_", "f", "o", "r", "m", "_", "g", "r", "o", "u", "p">>)
            ELSE IF HasAttribute(document[e], S(<<"f", "o", "r", "m", "a", "r", "r", "a", "y", "n", "a", "m", "e">>)) THEN S(<<"r", "e", "a", "c", "t", "i", "v", "e", "_", "f", "o", "r", "m", "_", "a", "r", "r", "a", "y">>)
            ELSE S(<<"r", "e", "a", "c", "t", "i", "v", "e", "_", "f", "o", "r", "m", "_", "c", "o", "n", "t", "r", "o", "l">>),
   name |-> extractControlName(document[e]),
   tagName |-> document[e].tagName,
   path |-> Join(FormPathSelectors(document, e, 0), S(<<" ", ">", " ">>)),
   parentForm |-> parentForm,
   validation |-> ControlValidationState(document[e]),
   nestedControls |-> IF \/ HasAttribute(document[e], S(<<"f", "o", "r", "m", "g", "r", "o", "u", "p", "n", "a", "m", "e">>))
                         \/ HasAttribute(document[e], S(<<"f", "o", "r", "m", "a", "r", "r", "a", "y", "n", "a", "m", "e">>))
                      THEN inspectNestedControls(document, e)
                      ELSE <<>>]

\* inspectReactiveForm (268-326): the catch throws again (323-325)
ReactiveFormThrows(document, f) ==
  \/ FormPathThrows(document, f, 0)
  \/ \E k \in DOMAIN ReactiveControlElements(document, f) :
       ReactiveControlThrows(document, ReactiveControlElements(document, f)[k])
inspectReactiveForm(document, f) ==
  [k \in DOMAIN ReactiveControlElements(document, f) |->
     inspectReactiveFormControl(document, ReactiveControlElements(document, f)[k], f)]

\* formData (272-291, 462-487, 753-768): validation is <<>> for a formData
\* without the property, else <<state>>
FormData(element, type, controls, validation) ==
  [element |-> element, type |-> type, controls |-> controls, validation |-> validation]
ReactiveFormData(document, f) ==
  FormData(f, S(<<"r", "e", "a", "c", "t", "i", "v", "e", "_", "f", "o", "r", "m", "_", "g", "r", "o", "u", "p">>), inspectReactiveForm(document, f),
           <<FormValidationState(document[f])>>)

\* document.querySelectorAll("[formGroup]") (226) and
\* "[formControl]:not([formGroup] [formControl])" (239-241)
FormGroupElements(document) ==
  SelectSeq(Indices(document), LAMBDA e : HasAttribute(document[e], S(<<"f", "o", "r", "m", "g", "r", "o", "u", "p">>)))
StandaloneControls(document) ==
  SelectSeq(Indices(document),
            LAMBDA e : /\ HasAttribute(document[e], S(<<"f", "o", "r", "m", "c", "o", "n", "t", "r", "o", "l">>))
                       /\ \A k \in DOMAIN FormGroupElements(document) :
                            ~IsDescendant(document, e, FormGroupElements(document)[k]))

\* result of inspectAllForms (116-131)
InspectionResult(forms, controls, errs) ==
  [forms |-> forms, controls |-> controls, errors |-> errs, validation |-> <<>>]
EmptyResult == InspectionResult(<<>>, <<>>, <<>>)
\* no result yet, or else <<result>>
NotInspected == <<>>

\* inspectReactiveForms (223-260): one try around both loops, so that the
\* first form or control that throws ends the pass
RECURSIVE InspectForms(_, _, _, _)
InspectForms(document, forms, k, res) ==
  IF k > Len(forms) THEN res
  ELSE IF ReactiveFormThrows(document, forms[k])
  THEN [res EXCEPT !.errors = Append(@, "reactive_forms_inspection_error")]
  ELSE InspectForms(document, forms, k + 1,
                    [res EXCEPT !.forms = Append(@, ReactiveFormData(document, forms[k])),
                                !.controls = @ \o inspectReactiveForm(document, forms[k])])

RECURSIVE InspectStandalone(_, _, _, _)
InspectStandalone(document, controls, k, res) ==
  IF k > Len(controls) THEN res
  ELSE IF ReactiveControlThrows(document, controls[k])
  THEN [res EXCEPT !.errors = Append(@, "reactive_forms_inspection_error")]
  ELSE InspectStandalone(document, controls, k + 1,
                         [res EXCEPT !.controls = Append(@, inspectReactiveFormControl(document, controls[k], 0))])

inspectReactiveForms(document, res) ==
  LET formsDone == InspectForms(document, FormGroupElements(document), 1, res)
  IN IF formsDone.errors # res.errors THEN formsDone
     ELSE InspectStandalone(document, StandaloneControls(document), 1, formsDone)

\* a control descriptor of the other passes (527-551, 627-657, 683-706,
\* 807-832)
InspectedControl(document, e, type, name, parentForm, state) ==
  [element |-> e, type |-> type, name |-> name, tagName |-> document[e].tagName,
   path |-> Join(FormPathSelectors(document, e, 0), S(<<" ", ">", " ">>)),
   parentForm |-> parentForm, validation |-> state, nestedControls |-> <<>>]

RECURSIVE Flatten(_)
Flatten(seqs) == IF seqs = <<>> THEN <<>> ELSE Head(seqs) \o Flatten(Tail(seqs))

\* a pass of inspectAllForms: a loop over forms and a loop over controls
\* outside forms in one try, whose catch pushes one error to result.errors.
\* formThrows and controlThrows say which calls throw
PassResult(res, forms, formThrows, controls, controlThrows, errorType) ==
  LET n == FirstThrow(formThrows)
      m == FirstThrow(controlThrows)
      kept == SubSeq(forms, 1, n - 1)
      withForms == [res EXCEPT !.forms = @ \o kept,
                               !.controls = @ \o Flatten([k \in DOMAIN kept |-> kept[k].controls])]
  IN IF n <= Len(forms) THEN [withForms EXCEPT !.errors = Append(@, errorType)]
     ELSE [withForms EXCEPT !.controls = @ \o SubSeq(controls, 1, m - 1),
                            !.errors = IF m <= Len(controls) THEN Append(@, errorType) ELSE @]

\* inspectTemplateDrivenForms (411-451): "[ngForm], form[name]", the
\* "[ngModel]" elements inside, and "[ngModel]:not([ngForm] [ngModel])"
TemplateFormElements(document) ==
  SelectSeq(Indices(document),
            LAMBDA e : \/ HasAttribute(document[e], S(<<"n", "g", "f", "o", "r", "m">>))
                       \/ document[e].tagName = S(<<"f", "o", "r", "m">>) /\ HasAttribute(document[e], S(<<"n", "a", "m", "e">>)))
ModelElements(document, f) ==
  SelectSeq(Indices(document),
            LAMBDA e : IsDescendant(document, e, f) /\ HasAttribute(document[e], S(<<"n", "g", "m", "o", "d", "e", "l">>)))
StandaloneModels(document) ==
  SelectSeq(Indices(document),
            LAMBDA e : /\ HasAttribute(document[e], S(<<"n", "g", "m", "o", "d", "e", "l">>))
                       /\ \A f \in DOMAIN document :
                            HasAttribute(document[f], S(<<"n", "g", "f", "o", "r", "m">>)) => ~IsDescendant(document, e, f))
inspectTemplateDrivenControl(document, e, parentForm) ==
  InspectedControl(document, e, S(<<"t", "e", "m", "p", "l", "a", "t", "e", "_", "d", "r", "i", "v", "e", "n", "_", "c", "o", "n", "t", "r", "o", "l">>),
              Or(GetAttribute(document[e], S(<<"n", "a", "m", "e">>)),
                 Or(GetAttribute(document[e], S(<<"n", "g", "m", "o", "d", "e", "l">>)), S(<<"u", "n", "n", "a", "m", "e", "d">>))),
              parentForm, ControlValidationState(document[e]))
inspectTemplateDrivenForm(document, f) ==
  FormData(f, S(<<"t", "e", "m", "p", "l", "a", "t", "e", "_", "d", "r", "i", "v", "e", "n", "_", "f", "o", "r", "m">>),
           [k \in DOMAIN ModelElements(document, f) |->
              inspectTemplateDrivenControl(document, ModelElements(document, f)[k], f)],
           <<"VALID">>)
TemplateFormThrows(document, f) ==
  \/ FormPathThrows(document, f, 0)
  \/ \E k \in DOMAIN ModelElements(document, f) :
       FormPathThrows(document, ModelElements(document, f)[k], 0)
inspectTemplateDrivenForms(document, res) ==
  LET forms == TemplateFormElements(document)
      models == StandaloneModels(document)
  IN PassResult(res,
                [k \in DOMAIN forms |-> inspectTemplateDrivenForm(document, forms[k])],
                [k \in DOMAIN forms |-> TemplateFormThrows(document, forms[k])],
                [k \in DOMAIN models |-> inspectTemplateDrivenControl(document, models[k], 0)],
                [k \in DOMAIN models |-> FormPathThrows(document, models[k], 0)],
                "template_driven_forms_inspection_error")

\* inspectMaterialForms (572-608): the first "input, select, textarea,
\* mat-select" inside each mat-form-field (a field without one is passed
\* over, 620), then the other Material components
MaterialInputs(document) ==
  LET inside(f) == SelectSeq(Indices(document),
                             LAMBDA e : /\ IsDescendant(document, e, f)
                                        /\ document[e].tagName \in
                                             {T_input, T_select, T_textarea, T_matSelect})
      fields == SelectSeq(Indices(document),
                          LAMBDA f : document[f].tagName = T_matFormField /\ inside(f) # <<>>)
  IN [k \in DOMAIN fields |-> inside(fields[k])[1]]
MaterialComponents(document) ==
  SelectSeq(Indices(document),
            LAMBDA e : document[e].tagName \in
                         {S(<<"m", "a", "t", "-", "c", "h", "e", "c", "k", "b", "o", "x">>), S(<<"m", "a", "t", "-", "r", "a", "d", "i", "o", "-", "g", "r", "o", "u", "p">>), S(<<"m", "a", "t", "-", "s", "l", "i", "d", "e", "-", "t", "o", "g", "g", "l", "e">>), S(<<"m", "a", "t", "-", "s", "l", "i", "d", "e", "r">>),
                          S(<<"m", "a", "t", "-", "b", "u", "t", "t", "o", "n", "-", "t", "o", "g", "g", "l", "e", "-", "g", "r", "o", "u", "p">>)})
inspectMaterialForms(document, res) ==
  LET inputs == MaterialInputs(document)
      components == MaterialComponents(document)
      MaterialData(e, state) ==
        InspectedControl(document, e, S(<<"m", "a", "t", "e", "r", "i", "a", "l", "_", "f", "o", "r", "m", "_", "f", "i", "e", "l", "d">>), extractControlName(document[e]), 0, state)
  IN PassResult(res, <<>>, <<>>,
                [k \in DOMAIN inputs |->
                   MaterialData(inputs[k], ControlValidationState(document[inputs[k]]))]
                \o [k \in DOMAIN components |-> MaterialData(components[k], "VALID")],
                [k \in DOMAIN inputs |-> FormPathThrows(document, inputs[k], 0)]
                \o [k \in DOMAIN components |-> FormPathThrows(document, components[k], 0)],
                "material_forms_inspection_error")

\* isAngularManagedControl (992-1000)
RECURSIVE ClosestWith(_, _, _)
ClosestWith(document, e, name) ==
  IF e = 0 THEN 0
  ELSE IF HasAttribute(document[e], name) THEN e
  ELSE ClosestWith(document, document[e].parent, name)
isAngularManagedControl(document, e) ==
  \/ HasAttribute(document[e], S(<<"f", "o", "r", "m", "c", "o", "n", "t", "r", "o", "l">>))
  \/ HasAttribute(document[e], S(<<"f", "o", "r", "m", "c", "o", "n", "t", "r", "o", "l", "n", "a", "m", "e">>))
  \/ HasAttribute(document[e], S(<<"n", "g", "m", "o", "d", "e", "l">>))
  \/ ClosestWith(document, e, S(<<"f", "o", "r", "m", "g", "r", "o", "u", "p">>)) # 0
  \/ ClosestWith(document, e, S(<<"n", "g", "f", "o", "r", "m">>)) # 0

\* controlElement.validity.valid (819-822); of the constraints only
\* required is on the pages of the model
ValidityValid(el) ==
  ~(/\ ElementRequired(el)
    /\ ~ElementDisabled(el) /\ ~ElementReadOnly(el) /\ ~IsDefaultMode(el)
    /\ IF IsCheckable(el) THEN ~el.checked ELSE ElementValue(el) = <<>>)

\* inspectNativeForms (720-741), inspectNativeForm (749-794) and
\* inspectNativeControl (803-838): formData has no validation property
NativeFormElements(document) ==
  SelectSeq(Indices(document),
            LAMBDA e : /\ document[e].tagName = S(<<"f", "o", "r", "m">>)
                       /\ ~HasAttribute(document[e], S(<<"f", "o", "r", "m", "g", "r", "o", "u", "p">>))
                       /\ ~HasAttribute(document[e], S(<<"n", "g", "f", "o", "r", "m">>)))
NativeControlElements(document, f) ==
  SelectSeq(Indices(document),
            LAMBDA e : /\ IsDescendant(document, e, f)
                       /\ document[e].tagName \in {T_input, T_select, T_textarea, S(<<"b", "u", "t", "t", "o", "n">>)}
                       /\ ~isAngularManagedControl(document, e))
inspectNativeControl(document, e, parentForm) ==
  InspectedControl(document, e, S(<<"n", "a", "t", "i", "v", "e", "_", "c", "o", "n", "t", "r", "o", "l">>),
              Or(ElementName(document[e]), Or(ElementId(document[e]), S(<<"u", "n", "n", "a", "m", "e", "d">>))),
              parentForm,
              IF ValidityValid(document[e]) THEN "VALID" ELSE "INVALID")
inspectNativeForm(document, f) ==
  FormData(f, S(<<"n", "a", "t", "i", "v", "e", "_", "f", "o", "r", "m">>),
           [k \in DOMAIN NativeControlElements(document, f) |->
              inspectNativeControl(document, NativeControlElements(document, f)[k], f)],
           <<>>)
NativeFormThrows(document, f) ==
  \/ FormPathThrows(document, f, 0)
  \/ \E k \in DOMAIN NativeControlElements(document, f) :
       FormPathThrows(document, NativeControlElements(document, f)[k], 0)
inspectNativeForms(document, res) ==
  LET forms == NativeFormElements(document)
  IN PassResult(res,
                [k \in DOMAIN forms |-> inspectNativeForm(document, forms[k])],
                [k \in DOMAIN forms |-> NativeFormThrows(document, forms[k])],
                <<>>, <<>>, "native_forms_inspection_error")

\* validateFormStates (1481-1556).  form.validation.state of a formData
\* without validation throws a TypeError; the catch pushes an error and
\* result.validation stays the empty object of line 123
CountState(controls, state) ==
  Cardinality({k \in DOMAIN controls : controls[k].validation = state})
FormValidation(form) ==
  [state |-> form.validation[1],
   controlCount |-> Len(form.controls),
   validControls |-> CountState(form.controls, "VALID"),
   invalidControls |-> CountState(form.controls, "INVALID"),
   pendingControls |-> CountState(form.controls, "PENDING"),
   disabledControls |-> CountState(form.controls, "DISABLED")]
validateFormStates(res) ==
  IF \E k \in DOMAIN res.forms : res.forms[k].validation = <<>>
  THEN [res EXCEPT !.errors = Append(@, "validation_error")]
  ELSE [res EXCEPT !.validation =
          <<[totalValid |-> CountState(res.controls, "VALID"),
             totalInvalid |-> CountState(res.controls, "INVALID"),
             totalPending |-> CountState(res.controls, "PENDING"),
             totalDisabled |-> CountState(res.controls, "DISABLED"),
             formValidation |-> [k \in DOMAIN res.forms |-> FormValidation(res.forms[k])]]>>]

\* inspectAllForms (113-173): the passes in their order, then the
\* validation.  The capability detection, the hierarchy and the custom
\* components fill result.metadata and result.hierarchy, each in a try of
\* its own
inspectAllForms(document) ==
  validateFormStates(
    inspectNativeForms(document,
      inspectMaterialForms(document,
        inspectTemplateDrivenForms(document,
          inspectReactiveForms(document, EmptyResult)))))

\* the constructor (62-70): no timer, nothing scanned
ObserverIdle ==
  /\ time = 0
  /\ timers = {}
  /\ timerSeq = 1
  /\ debounceTimers = <<>>
  /\ scansInFlight = 0
  /\ formControlsCache = <<>>
  /\ events = <<>>

\* no call of captureForms yet
NothingCaptured ==
  /\ entry = "none"
  /\ captureOptions = DefaultOptions
  /\ capturedControls = <<>>
  /\ encodedSnapshot = NoText
  /\ clipboard = NoText
  /\ store = <<>>
  /\ loaded = <<>>
  /\ captureError = "none"
  /\ inspection = NotInspected

\* the content script before the first call
ScriptIdle ==
  /\ drift = 0
  /\ lastSnapshot = <<>>
  /\ optionsSnapshot = <<>>
  /\ restorePc = "capture"
  /\ currentFormControls = <<>>
  /\ currentControlsMap = NoMap
  /\ index = 0
  /\ restoredCount = 0
  /\ skippedCount = 0
  /\ errors = <<>>
  /\ reports = <<>>
  /\ clicked = <<>>
  /\ dispatched = <<>>
  /\ domAfter = <<>>
  /\ options = "none"
  /\ restoreError = "none"
  /\ WorkerIdle
  /\ NothingCaptured
  /\ ObserverIdle

\* an Angular page of the pool in a browser that lets everything through
PageInit ==
  /\ dom \in Pages
  /\ angularDetected = TRUE
  /\ isAngularTab = TRUE
  /\ popupDetected = TRUE
  /\ env = Willing
  /\ ScriptIdle

\* a page with no form control, and one with more than MAX_FORM_CONTROLS
EmptyPage == SubSeq(BasePage, 1, 2)
CrowdedPage ==
  SubSeq(BasePage, 1, 3)
  \o [i \in 1..(MAX_FORM_CONTROLS + 1) |->
        Element(T_input, 3, <<<<S(<<"n", "a", "m", "e">>), S(<<"i", "t", "e", "m">>)>>>>)]

\* any page: the detection of Angular (155-172, 4553-4572, service-worker.js
\* 298-308) has run or not, with either result
\* two reactive forms and a control outside them; the second control of
\* the first form is drawn inside an SVG picture
ReactivePage ==
  <<Element(S(<<"h", "t", "m", "l">>), 0, <<>>),
    Element(S(<<"b", "o", "d", "y">>), 1, <<>>),
    Element(S(<<"f", "o", "r", "m">>), 2, <<<<S(<<"f", "o", "r", "m", "g", "r", "o", "u", "p">>), S(<<"p", "r", "o", "f", "i", "l", "e">>)>>>>),
    WithValue(Element(T_input, 3, <<<<S(<<"f", "o", "r", "m", "c", "o", "n", "t", "r", "o", "l", "n", "a", "m", "e">>), S(<<"f", "i", "r", "s", "t">>)>>>>), S(<<"K", "i", "e", "t">>)),
    Element(T_svg, 3, <<<<S(<<"c", "l", "a", "s", "s">>), S(<<"b", "a", "d", "g", "e">>)>>>>),
    Element(T_foreignObject, 5, <<>>),
    WithValue(Element(T_input, 6, <<<<S(<<"f", "o", "r", "m", "c", "o", "n", "t", "r", "o", "l", "n", "a", "m", "e">>), S(<<"n", "o", "t", "e">>)>>>>), S(<<"h", "i">>)),
    WithValue(Element(T_input, 3, <<<<S(<<"f", "o", "r", "m", "c", "o", "n", "t", "r", "o", "l", "n", "a", "m", "e">>), S(<<"l", "a", "s", "t">>)>>>>), S(<<"Z", "e", "n">>)),
    Element(S(<<"f", "o", "r", "m">>), 2, <<<<S(<<"f", "o", "r", "m", "g", "r", "o", "u", "p">>), S(<<"a", "d", "d", "r", "e", "s", "s">>)>>>>),
    WithValue(Element(T_input, 9, <<<<S(<<"f", "o", "r", "m", "c", "o", "n", "t", "r", "o", "l", "n", "a", "m", "e">>), S(<<"s", "t", "r", "e", "e", "t">>)>>>>), S(<<"M", "a", "i", "n">>)),
    WithValue(Element(T_input, 2, <<<<S(<<"f", "o", "r", "m", "c", "o", "n", "t", "r", "o", "l">>), <<>>>>, <<S(<<"n", "a", "m", "e">>), S(<<"s", "e", "a", "r", "c", "h">>)>>>>), S(<<"q">>))>>
\* the sign-up page with its first input disabled
LockedPage == Locked(BasePage, {<<E_email, S(<<"d", "i", "s", "a", "b", "l", "e", "d">>)>>})
ExtensionPages == {BasePage, LockedPage, EmptyPage, CrowdedPage, ReactivePage}
\* <<content script, popup, background>>: nothing detected; detected by
\* all; by the popup after the content script gave up (157); not told to
\* the background
Detections ==
  {<<FALSE, FALSE, FALSE>>, <<TRUE, TRUE, TRUE>>, <<FALSE, TRUE, TRUE>>, <<TRUE, TRUE, FALSE>>}
ExtensionPageInit ==
  /\ dom \in ExtensionPages
  /\ \E d \in Detections :
       angularDetected = d[1] /\ popupDetected = d[2] /\ isAngularTab = d[3]
  /\ env \in Browsers
  /\ dom # BasePage => env = Willing /\ isAngularTab
  /\ ScriptIdle

\* no page: the content script is not running
PageIdle ==
  /\ dom = <<>>
  /\ drift = 0
  /\ lastSnapshot = <<>>
  /\ optionsSnapshot = <<>>
  /\ restorePc = "idle"
  /\ currentFormControls = <<>>
  /\ currentControlsMap = NoMap
  /\ index = 0
  /\ restoredCount = 0
  /\ skippedCount = 0
  /\ errors = <<>>
  /\ reports = <<>>
  /\ clicked = <<>>
  /\ dispatched = <<>>
  /\ domAfter = <<>>
  /\ options = "none"
  /\ restoreError = "none"
  /\ angularDetected = FALSE
  /\ isAngularTab = FALSE
  /\ popupDetected = FALSE
  /\ env = Willing
  /\ WorkerIdle
  /\ NothingCaptured
  /\ ObserverIdle

\* no call of the encoder or the decoder
CodecIdle ==
  /\ cryptoSubtle = TRUE
  /\ formControls = <<>>
  /\ now = S(<<"1", "7", "0", "0", "0", "0", "0", "0", "0", "0", "0", "0", "0">>)
  /\ encPc = "idle"
  /\ snapshot = NoSnapshot
  /\ jsonString = <<>>
  /\ compressed = NoValue
  /\ encoded = <<>>
  /\ token = <<>>
  /\ decPc = "idle"
  /\ encodedData = <<>>
  /\ parts = <<>>
  /\ calculatedChecksum = <<>>
  /\ decoded = NoValue
  /\ decompressed = <<>>
  /\ result = NoResult
  /\ decError = "none"

\* the codec and what the capture left behind
elsewhere == <<codecVars, extensionVars, observerVars>>

loopUnchanged == <<drift, lastSnapshot, optionsSnapshot, restorePc, currentFormControls,
                   currentControlsMap, reports, domAfter, options, restoreError>>
restoreLocals == <<currentFormControls, currentControlsMap, index, restoredCount,
                   skippedCount, errors>>

\* service-worker.js 190-204, 223-227, 239-241: the background keeps
\* btoa(JSON.stringify(snapshot.forms)) (compressionLevel 'medium') and
\* loadSnapshot returns JSON.parse(atob(data)): the array of the forms
JsonForms(forms) == JsonArray([i \in DOMAIN forms |-> JsonControl(forms[i])])
compressMedium(data) == [type |-> "base64_deflate", data |-> Btoa(data)]
\* btoa throws an InvalidCharacterError for a unit above 255
BtoaOk(data) == \A i \in DOMAIN data : data[i] < 256
compressSnapshot(snap) == compressMedium(Explode(JsonForms(snap.forms)))

\* a JavaScript value restoreForms can be given: its own property names and,
\* for an array, its items
ObjectValue(members, forms) == [isArray |-> FALSE, members |-> members, forms |-> forms]
ArrayValue(items) == [isArray |-> TRUE, members |-> {}, forms |-> items]

\* JSON.parse(atob(data)) of a text that is the rendering of known forms
decompressMedium(data, forms) ==
  IF AtobOk(data) /\ AtobBytes(data) = Explode(JsonForms(forms))
  THEN ArrayValue(forms)
  ELSE ObjectValue({}, <<>>)
decompressSnapshot(compressedData, forms) == decompressMedium(compressedData.data, forms)

\* lines 307-325: the snapshot captureForms builds, returns and sends with
\* SAVE_SNAPSHOT
CaptureSnapshot(controls) ==
  ObjectValue({"timestamp", "url", "title", "userAgent", "forms", "options"},
              [i \in DOMAIN controls |-> SnapshotControl(controls[i])])
\* lines 2463-2480, 2520: what decodeFormData returns for the capture's token
DecodedSnapshot ==
  ObjectValue({"version", "timestamp", "url", "title", "userAgent", "formControls"},
              optionsSnapshot)

(***************************************************************************)
(* captureForms (288-375), a step an action.  It is called by              *)
(* handleMessage for a CAPTURE_FORMS message (118-128), which the popup    *)
(* (4653-4673) and the background's command (service-worker.js 372-382)    *)
(* send, and by the keydown listener (779-786).                            *)
(***************************************************************************)
CaptureIdle == restorePc = "capture"
captureLocals == <<capturedControls, encodedSnapshot>>
captureUnchanged ==
  <<dom, drift, lastSnapshot, optionsSnapshot, reports, clicked, dispatched, domAfter, options,
    restoreError, angularDetected, isAngularTab, workerVars, popupDetected, env, loaded, inspection,
    observerVars>>

\* captureForms(data) is entered
CaptureCalled(from, data) ==
  /\ CaptureIdle
  /\ entry' = from
  /\ captureOptions' = data
  /\ captureError' = "none"
  /\ restorePc' = "inspect"
  /\ UNCHANGED <<clipboard, store>>
  /\ UNCHANGED captureLocals
  /\ UNCHANGED captureUnchanged
  /\ UNCHANGED restoreLocals
  /\ UNCHANGED codecVars

\* lines 4653-4673, 118-128: the button of the popup; autoSave and
\* copyToClipboard are settings of the popup
PopupCapture ==
  /\ popupDetected
  /\ \E copyToClipboard \in BOOLEAN, saveToStorage \in BOOLEAN :
       CaptureCalled("popup", CaptureOptions(copyToClipboard, saveToStorage))

\* service-worker.js 372-382, 118-128: the command of the background
CommandCapture ==
  /\ isAngularTab
  /\ CaptureCalled("command", DefaultOptions)

\* lines 118-128: a CAPTURE_FORMS message from any other sender
\* (service-worker.js 309-319)
MessageCapture ==
  \E copyToClipboard \in BOOLEAN, saveToStorage \in BOOLEAN :
    CaptureCalled("message", CaptureOptions(copyToClipboard, saveToStorage))

\* lines 779-786: Ctrl+Shift+F on the page
ShortcutCapture == CaptureCalled("shortcut", DefaultOptions)

\* lines 364-374: the catch of captureForms; handleMessage answers
\* { success: false, error } (143-149)
CaptureThrows(message) ==
  /\ captureError' = message
  /\ restorePc' = "capture"
  /\ capturedControls' = <<>>
  /\ encodedSnapshot' = NoText
  /\ UNCHANGED <<entry, captureOptions>>
  /\ UNCHANGED captureUnchanged
  /\ UNCHANGED restoreLocals
  /\ UNCHANGED codecVars

\* lines 291-293
CaptureUnavailable ==
  /\ restorePc = "inspect"
  /\ ~env.utils
  /\ CaptureThrows("Angular snapshot utilities not available")
  /\ UNCHANGED <<clipboard, store>>

\* lines 296-324
CaptureInspect ==
  /\ restorePc = "inspect"
  /\ env.utils
  /\ ControlCount(dom) > 0
  /\ ControlCount(dom) <= MAX_FORM_CONTROLS
  /\ \E stream \in RandomStreams :
       capturedControls' = inspectAllFormControls(dom, now, stream)
  /\ restorePc' = "encode"
  /\ UNCHANGED <<entry, captureOptions, encodedSnapshot, clipboard, store, captureError>>
  /\ UNCHANGED captureUnchanged
  /\ UNCHANGED restoreLocals
  /\ UNCHANGED codecVars

\* lines 298-300
CaptureNoControls ==
  /\ restorePc = "inspect"
  /\ env.utils
  /\ ControlCount(dom) = 0
  /\ CaptureThrows("No form controls found on the page")
  /\ UNCHANGED <<clipboard, store>>

\* line 326: encodeFormData(snapshot.forms) is called
CaptureEncode ==
  /\ restorePc = "encode"
  /\ encPc = "idle"
  /\ formControls' = capturedControls
  /\ encPc' = "stringify"
  /\ restorePc' = "encoding"
  /\ UNCHANGED <<cryptoSubtle, now, snapshot, jsonString, compressed, encoded, token>>
  /\ UNCHANGED <<decPc, encodedData, parts, calculatedChecksum, decoded, decompressed,
                  result, decError>>
  /\ UNCHANGED <<entry, captureOptions, clipboard, store, captureError>>
  /\ UNCHANGED captureLocals
  /\ UNCHANGED captureUnchanged
  /\ UNCHANGED restoreLocals

\* line 326: encodeFormData has returned its token
CaptureEncoded ==
  /\ restorePc = "encoding"
  /\ encPc = "done"
  /\ encodedSnapshot' = token
  /\ restorePc' = "copy"
  /\ encPc' = "idle"
  /\ formControls' = <<>>
  /\ snapshot' = NoSnapshot
  /\ jsonString' = <<>>
  /\ compressed' = NoValue
  /\ encoded' = <<>>
  /\ token' = <<>>
  /\ UNCHANGED <<cryptoSubtle, now>>
  /\ UNCHANGED <<decPc, encodedData, parts, calculatedChecksum, decoded, decompressed,
                  result, decError>>
  /\ UNCHANGED <<entry, captureOptions, capturedControls, clipboard, store, captureError>>
  /\ UNCHANGED captureUnchanged
  /\ UNCHANGED restoreLocals

\* lines 329-331, 582-589: the token is written to the clipboard
CaptureCopy ==
  /\ restorePc = "copy"
  /\ captureOptions.copyToClipboard => env.clipboardWrites
  /\ clipboard' = IF captureOptions.copyToClipboard THEN encodedSnapshot ELSE clipboard
  /\ restorePc' = "save"
  /\ UNCHANGED <<entry, captureOptions, store, captureError>>
  /\ UNCHANGED captureLocals
  /\ UNCHANGED captureUnchanged
  /\ UNCHANGED restoreLocals
  /\ UNCHANGED codecVars

\* lines 329-331, 595-598: navigator.clipboard.writeText rejects (the
\* document has no focus)
CaptureCopyFails ==
  /\ restorePc = "copy"
  /\ captureOptions.copyToClipboard
  /\ ~env.clipboardWrites
  /\ CaptureThrows("Failed to copy to clipboard")
  /\ UNCHANGED <<clipboard, store>>

\* lines 302-304
CaptureTooMany ==
  /\ restorePc = "inspect"
  /\ env.utils
  /\ ControlCount(dom) > MAX_FORM_CONTROLS
  /\ CaptureThrows("Too many form controls detected")
  /\ UNCHANGED <<clipboard, store>>

\* saveSnapshot with the limit tested by >=
SavedAtLimit(snapshots, snapshotEntry) ==
  LET pushed == Append(snapshots, snapshotEntry)
  IN IF Len(pushed) >= maxSnapshots
     THEN SubSeq(pushed, Len(pushed) - maxSnapshots + 2, Len(pushed))
     ELSE pushed

\* service-worker.js 127-162: saveSnapshot; the oldest entries go when
\* there are more than maxSnapshots
Saved(snapshots, snapshotEntry) ==
  LET pushed == Append(snapshots, snapshotEntry)
  IN IF Len(pushed) > maxSnapshots
     THEN SubSeq(pushed, Len(pushed) - maxSnapshots + 1, Len(pushed))
     ELSE pushed

\* lines 334-339, service-worker.js 270-273, 127-162: SAVE_SNAPSHOT is sent
\* and answered; when saveSnapshot throws the answer is { success: false },
\* which captureForms does not read
CaptureSave ==
  /\ restorePc = "save"
  /\ captureOptions.saveToStorage => env.background
  /\ LET snap == CaptureSnapshot(capturedControls)
         dataString == Explode(JsonForms(snap.forms))
     IN store' = IF captureOptions.saveToStorage /\ env.storage /\ BtoaOk(dataString)
                 THEN Saved(store, [timestamp |-> now, formCount |-> Len(snap.forms),
                                    compressed |-> compressSnapshot(snap)])
                 ELSE store
  /\ restorePc' = "commit"
  /\ UNCHANGED <<entry, captureOptions, clipboard, captureError>>
  /\ UNCHANGED captureLocals
  /\ UNCHANGED captureUnchanged
  /\ UNCHANGED restoreLocals
  /\ UNCHANGED codecVars

\* lines 334-339: chrome.runtime.sendMessage rejects (no background to
\* receive the message)
CaptureSaveFails ==
  /\ restorePc = "save"
  /\ captureOptions.saveToStorage
  /\ ~env.background
  /\ CaptureThrows("Could not establish connection. Receiving end does not exist.")
  /\ UNCHANGED <<clipboard, store>>

\* lines 341-362: this.lastSnapshot and the result.  optionsSnapshot is the
\* formControls decodeFormData returns for a token of this snapshot
CaptureCommit ==
  /\ restorePc = "commit"
  /\ lastSnapshot' = capturedControls
  /\ optionsSnapshot' = [i \in DOMAIN lastSnapshot' |-> SnapshotControl(lastSnapshot'[i])]
  /\ restorePc' = "page"
  /\ capturedControls' = <<>>
  /\ UNCHANGED <<dom, drift, reports, clicked, dispatched, domAfter, options, restoreError>>
  /\ UNCHANGED <<angularDetected, isAngularTab, workerVars, popupDetected, env, entry, captureOptions,
                  encodedSnapshot, clipboard, store, loaded, captureError, inspection>>
  /\ UNCHANGED observerVars
  /\ UNCHANGED restoreLocals
  /\ UNCHANGED codecVars

\* service-worker.js 275-278, 169-188: LOAD_SNAPSHOT for the latest entry
LoadSnapshot ==
  /\ restorePc = "page"
  /\ store # <<>>
  /\ loaded = <<>>
  /\ loaded' = <<decompressSnapshot(store[Len(store)].compressed,
                                     CaptureSnapshot(lastSnapshot).forms)>>
  /\ UNCHANGED <<dom, drift, lastSnapshot, optionsSnapshot, restorePc, reports, clicked, dispatched,
                  domAfter, options, restoreError>>
  /\ UNCHANGED <<angularDetected, isAngularTab, workerVars, popupDetected, env, entry, captureOptions,
                  capturedControls, encodedSnapshot, clipboard, store, captureError,
                  inspection>>
  /\ UNCHANGED observerVars
  /\ UNCHANGED restoreLocals
  /\ UNCHANGED codecVars

\* form-inspector.js 223-260: a call of inspectReactiveForms with an empty
\* result, by a script of the page after a capture
InspectReactiveForms ==
  /\ restorePc = "page"
  /\ inspection = NotInspected
  /\ inspection' = <<inspectReactiveForms(dom, EmptyResult)>>
  /\ UNCHANGED <<dom, drift, lastSnapshot, optionsSnapshot, restorePc, reports, clicked, dispatched,
                  domAfter, options, restoreError>>
  /\ UNCHANGED <<angularDetected, isAngularTab, workerVars, popupDetected, env, entry, captureOptions,
                  capturedControls, encodedSnapshot, clipboard, store, loaded, captureError>>
  /\ UNCHANGED observerVars
  /\ UNCHANGED restoreLocals
  /\ UNCHANGED codecVars

(***************************************************************************)
(* AngularFormInspector.inspectAllForms (form-inspector.js 113-173) on     *)
(* pages whose forms Angular has given a status.                           *)
(***************************************************************************)
\* a reactive form with a group inside a group and an array inside a group
NestedPage ==
  <<Element(S(<<"h", "t", "m", "l">>), 0, <<>>),
    Element(S(<<"b", "o", "d", "y">>), 1, <<>>),
    Element(S(<<"f", "o", "r", "m">>), 2, <<<<S(<<"f", "o", "r", "m", "g", "r", "o", "u", "p">>), S(<<"o", "r", "d", "e", "r">>)>>>>),
    Element(S(<<"d", "i", "v">>), 3, <<<<S(<<"f", "o", "r", "m", "g", "r", "o", "u", "p", "n", "a", "m", "e">>), S(<<"a", "d", "d", "r", "e", "s", "s">>)>>>>),
    WithValue(Element(T_input, 4, <<<<S(<<"f", "o", "r", "m", "c", "o", "n", "t", "r", "o", "l", "n", "a", "m", "e">>), S(<<"s", "t", "r", "e", "e", "t">>)>>>>), S(<<"M", "a", "i", "n">>)),
    Element(S(<<"d", "i", "v">>), 4, <<<<S(<<"f", "o", "r", "m", "g", "r", "o", "u", "p", "n", "a", "m", "e">>), S(<<"g", "e", "o">>)>>>>),
    WithValue(Element(T_input, 6, <<<<S(<<"f", "o", "r", "m", "c", "o", "n", "t", "r", "o", "l", "n", "a", "m", "e">>), S(<<"l", "a", "t">>)>>>>), S(<<"2", "1">>)),
    Element(S(<<"d", "i", "v">>), 4, <<<<S(<<"f", "o", "r", "m", "a", "r", "r", "a", "y", "n", "a", "m", "e">>), S(<<"p", "h", "o", "n", "e", "s">>)>>>>),
    WithValue(Element(T_input, 8, <<<<S(<<"f", "o", "r", "m", "c", "o", "n", "t", "r", "o", "l", "n", "a", "m", "e">>), S(<<"0">>)>>>>), S(<<"5", "5", "5">>)),
    WithValue(Element(T_input, 3, <<<<S(<<"f", "o", "r", "m", "c", "o", "n", "t", "r", "o", "l", "n", "a", "m", "e">>), S(<<"n", "o", "t", "e">>)>>>>), S(<<"h", "i">>))>>

\* a template-driven form
LoginPage ==
  <<Element(S(<<"h", "t", "m", "l">>), 0, <<>>),
    Element(S(<<"b", "o", "d", "y">>), 1, <<>>),
    Element(S(<<"f", "o", "r", "m">>), 2, <<<<S(<<"n", "g", "f", "o", "r", "m">>), <<>>>>, <<S(<<"n", "a", "m", "e">>), S(<<"l", "o", "g", "i", "n">>)>>>>),
    Element(T_input, 3, <<<<S(<<"n", "g", "m", "o", "d", "e", "l">>), <<>>>>, <<S(<<"n", "a", "m", "e">>), S(<<"u", "s", "e", "r">>)>>, <<S(<<"r", "e", "q", "u", "i", "r", "e", "d">>), <<>>>>>>),
    Element(T_input, 3, <<<<S(<<"t", "y", "p", "e">>), T_checkbox>>, <<S(<<"n", "g", "m", "o", "d", "e", "l">>), <<>>>>, <<S(<<"n", "a", "m", "e">>), S(<<"r", "e", "m", "e", "m", "b", "e", "r">>)>>>>)>>

\* the same page with a form that has a name and no Angular directive
ContactPage ==
  LoginPage
  \o <<Element(S(<<"f", "o", "r", "m">>), 2, <<<<S(<<"n", "a", "m", "e">>), S(<<"c", "o", "n", "t", "a", "c", "t">>)>>>>),
       Element(T_textarea, Len(LoginPage) + 1, <<<<S(<<"n", "a", "m", "e">>), S(<<"m", "e", "s", "s", "a", "g", "e">>)>>, <<S(<<"r", "e", "q", "u", "i", "r", "e", "d">>), <<>>>>>>),
       Element(T_input, Len(LoginPage) + 1, <<<<S(<<"n", "g", "m", "o", "d", "e", "l">>), <<>>>>, <<S(<<"n", "a", "m", "e">>), S(<<"t", "o", "p", "i", "c">>)>>>>)>>

InspectorPages == {BasePage, ReactivePage, NestedPage, LoginPage, ContactPage}

\* the elements Angular keeps a status for, and the classes it marks the
\* status with
StatusElements(document) ==
  {e \in DOMAIN document :
     \E name \in {S(<<"f", "o", "r", "m", "g", "r", "o", "u", "p">>), S(<<"f", "o", "r", "m", "g", "r", "o", "u", "p", "n", "a", "m", "e">>), S(<<"f", "o", "r", "m", "a", "r", "r", "a", "y", "n", "a", "m", "e">>), S(<<"f", "o", "r", "m", "c", "o", "n", "t", "r", "o", "l", "n", "a", "m", "e">>),
                   S(<<"f", "o", "r", "m", "c", "o", "n", "t", "r", "o", "l">>), S(<<"n", "g", "m", "o", "d", "e", "l">>), S(<<"n", "g", "f", "o", "r", "m">>)} : HasAttribute(document[e], name)}
StatusClasses == {S(<<"n", "g", "-", "v", "a", "l", "i", "d">>), S(<<"n", "g", "-", "i", "n", "v", "a", "l", "i", "d">>), S(<<"n", "g", "-", "p", "e", "n", "d", "i", "n", "g">>)}
SetStatusClass(el, cls) ==
  LET others == SelectSeq(Split(ElementClassName(el), Ch(" ")),
                          LAMBDA c : c # <<>> /\ c \notin StatusClasses)
  IN SetAttribute(el, S(<<"c", "l", "a", "s", "s">>), Join(Append(others, cls), S(<<" ">>)))

MaxMarks == 2

inspectorUnchanged ==
  <<lastSnapshot, optionsSnapshot, restorePc, reports, clicked, dispatched, domAfter,
    options, restoreError, angularDetected, isAngularTab, workerVars, popupDetected, env, entry,
    captureOptions, capturedControls, encodedSnapshot, clipboard, store, loaded,
    captureError, observerVars, restoreLocals, codecVars>>

\* Angular writes the status of a form, a group or a control to its class
PageSetsStatus ==
  /\ restorePc = "capture"
  /\ inspection = NotInspected
  /\ drift < MaxMarks
  /\ \E e \in StatusElements(dom), cls \in StatusClasses :
       /\ dom' = [dom EXCEPT ![e] = SetStatusClass(dom[e], cls)]
       /\ dom' # dom
  /\ drift' = drift + 1
  /\ UNCHANGED inspection
  /\ UNCHANGED inspectorUnchanged

\* the application disables a control
PageDisablesControl ==
  /\ restorePc = "capture"
  /\ inspection = NotInspected
  /\ drift < MaxMarks
  /\ \E e \in StatusElements(dom) :
       /\ IsFormControl(dom[e])
       /\ ~ElementDisabled(dom[e])
       /\ dom' = [dom EXCEPT ![e] = SetAttribute(dom[e], S(<<"d", "i", "s", "a", "b", "l", "e", "d">>), <<>>)]
  /\ drift' = drift + 1
  /\ UNCHANGED inspection
  /\ UNCHANGED inspectorUnchanged

\* form-inspector.js 113-173: a call of inspectAllForms
InspectAllForms ==
  /\ restorePc = "capture"
  /\ inspection = NotInspected
  /\ inspection' = <<inspectAllForms(dom)>>
  /\ UNCHANGED <<dom, drift>>
  /\ UNCHANGED inspectorUnchanged

(***************************************************************************)
(* setupDOMObservers (749-774), debounce (812-823) and scanForms           *)
(* (236-254).  Time passes in steps of a third of DEBOUNCE_DELAY; a        *)
(* timeout runs when it is due or later, as the event loop gets to it.     *)
(***************************************************************************)
TickMs == DEBOUNCE_DELAY \div 3
MaxTicks == 7
MaxAdded == 3

observerUnchanged ==
  <<drift, lastSnapshot, optionsSnapshot, restorePc, reports, clicked, dispatched, domAfter, options,
    restoreError, extensionVars>>

\* setTimeout and clearTimeout
Timer(id, due) == [id |-> id, due |-> due]
ClearTimeout(pending, id) == {t \in pending : t.id # id}

\* debounce without clearTimeout
debounceNoClear(pending, registered, id, due) == pending \cup {Timer(id, due)}

\* debounce (812-823): the timer of the key is cleared and a new one set
debounce(pending, registered, id, due) ==
  (IF registered # <<>> THEN ClearTimeout(pending, registered[1]) ELSE pending)
  \cup {Timer(id, due)}

\* node.matches('form, input, select, textarea, [formControl],
\* [formControlName], [ngModel]') (755)
MatchesFormSelector(el) ==
  el.tagName \in {S(<<"f", "o", "r", "m">>), T_input, T_select, T_textarea} \/ IsAngular(el)

\* what the application adds to the body: a control or a plain block
AddedNodes ==
  {WithValue(Element(T_input, 2, <<<<S(<<"n", "a", "m", "e">>), S(<<"e", "x", "t", "r", "a">>)>>>>), S(<<"m", "o", "r", "e">>)),
   Element(S(<<"d", "i", "v">>), 2, <<<<S(<<"c", "l", "a", "s", "s">>), S(<<"b", "a", "n", "n", "e", "r">>)>>>>)}

\* the nodes added to the page since it was loaded
Added(document) ==
  IF Len(document) >= Len(BasePage) THEN Len(document) - Len(BasePage)
  ELSE Len(document) - Len(EmptyPage)

\* lines 751-768: the page adds a node and the observer's callback runs
PageAddsNode ==
  /\ restorePc = "capture"
  /\ Added(dom) < MaxAdded
  /\ time + DEBOUNCE_DELAY <= MaxTicks * TickMs
  /\ \E node \in AddedNodes :
       /\ dom' = Append(dom, node)
       /\ IF MatchesFormSelector(node)
          THEN /\ timers' = debounce(timers, debounceTimers, timerSeq, time + DEBOUNCE_DELAY)
               /\ debounceTimers' = <<timerSeq>>
               /\ timerSeq' = timerSeq + 1
               /\ events' = Append(events, <<"notify", time>>)
          ELSE UNCHANGED <<timers, debounceTimers, timerSeq, events>>
  /\ UNCHANGED <<time, scansInFlight, formControlsCache>>
  /\ UNCHANGED observerUnchanged
  /\ UNCHANGED restoreLocals
  /\ UNCHANGED codecVars

\* Date.now() at the time
ClockAt(t) == SubSeq(now, 1, Len(now) - 4) \o PadStart(Decimal(t), 4)

\* updateFormControlsCache (260-271)
ScannedControls(controls, t) ==
  [i \in DOMAIN controls |-> [control |-> controls[i], lastScanned |-> t]]

\* lines 817-820 and 236-243: a timeout set by debounce runs.  It calls
\* scanForms, which returns at its await, and deletes the key
TimerFires ==
  /\ \E t \in timers :
       /\ t.due <= time
       /\ timers' = timers \ {t}
  /\ scansInFlight' = IF env.utils THEN scansInFlight + 1 ELSE scansInFlight
  /\ events' = Append(events, <<"scan", time>>)
  /\ debounceTimers' = <<>>
  /\ UNCHANGED <<dom, time, timerSeq, formControlsCache>>
  /\ UNCHANGED observerUnchanged
  /\ UNCHANGED restoreLocals
  /\ UNCHANGED codecVars

\* lines 243-249: the inspector answers and scanForms fills the cache
ScanCompletes ==
  /\ scansInFlight > 0
  /\ scansInFlight' = scansInFlight - 1
  /\ \E stream \in RandomStreams :
       formControlsCache' =
         ScannedControls(inspectAllFormControls(dom, ClockAt(time), stream), time)
  /\ UNCHANGED <<dom, time, timers, timerSeq, debounceTimers, events>>
  /\ UNCHANGED observerUnchanged
  /\ UNCHANGED restoreLocals
  /\ UNCHANGED codecVars

\* the clock
TimePasses ==
  /\ restorePc = "capture"
  /\ time + TickMs <= MaxTicks * TickMs
  /\ time' = time + TickMs
  /\ UNCHANGED <<dom, timers, timerSeq, debounceTimers, scansInFlight, formControlsCache,
                  events>>
  /\ UNCHANGED observerUnchanged
  /\ UNCHANGED restoreLocals
  /\ UNCHANGED codecVars

Drifting == restorePc = "page" /\ reports = <<>> /\ drift < MaxDrift /\ dom # EmptyPage
DriftTo(document) ==
  /\ Drifting
  /\ dom' = document
  /\ dom' # dom
  /\ drift' = drift + 1
  /\ UNCHANGED <<lastSnapshot, optionsSnapshot, restorePc, reports, clicked, dispatched, domAfter,
                  options, restoreError>>
  /\ UNCHANGED restoreLocals
  /\ UNCHANGED elsewhere

\* the user edits a control that can be edited
UserTypes ==
  \E e \in WritableElements, text \in TypedTexts :
    /\ Drifting
    /\ ~ElementDisabled(dom[e]) /\ ~ElementReadOnly(dom[e])
    /\ DriftTo(SetValue(dom, e, text))

UserToggles == DriftTo(SetChecked(dom, E_subscribe, ~dom[E_subscribe].checked))

UserSelects ==
  /\ Drifting
  /\ \E i \in DOMAIN dom[E_plan].options :
       DriftTo([dom EXCEPT ![E_plan].selectedIndex = i - 1])

\* the page changes the class of an element or disables it
PageSetsAttribute ==
  \E e \in RestyledElements, a \in {<<S(<<"c", "l", "a", "s", "s">>), S(<<"f", "o", "r", "m", "-", "c", "o", "n", "t", "r", "o", "l">>)>>, <<S(<<"d", "i", "s", "a", "b", "l", "e", "d">>), <<>>>>} :
    DriftTo([dom EXCEPT ![e] = SetAttribute(dom[e], a[1], a[2])])

\* the page takes the class of an element away and sets it again, as a
\* class binding does: the attribute is now the last one of the element
PageReordersAttributes ==
  \E e \in RestyledElements :
    /\ Drifting
    /\ HasAttribute(dom[e], S(<<"c", "l", "a", "s", "s">>))
    /\ DriftTo([dom EXCEPT ![e] =
                  SetAttribute(RemoveAttribute(dom[e], S(<<"c", "l", "a", "s", "s">>)), S(<<"c", "l", "a", "s", "s">>),
                               GetAttribute(dom[e], S(<<"c", "l", "a", "s", "s">>)))])

\* the application routes to a view without form controls
PageNavigates == DriftTo(EmptyPage)

\* the page withdraws the first option of the select
PageRemovesOption ==
  /\ Drifting
  /\ dom[E_plan].options # <<>>
  /\ DriftTo([dom EXCEPT ![E_plan].options = Tail(dom[E_plan].options),
                         ![E_plan].selectedIndex =
                           IF Len(dom[E_plan].options) > 1 THEN 0 ELSE -1])

\* the page renders the select again with record ids as the values of its
\* options and the former values as their labels
PageRekeysOptions ==
  DriftTo([dom EXCEPT ![E_plan].options =
             [i \in DOMAIN dom[E_plan].options |->
                Option(Decimal(i), dom[E_plan].options[i].value)]])

\* new Map(); forEach(control => map.set(key, control)): a later control of
\* the same key replaces an earlier one
ControlsMap(controls) ==
  LET keys == [i \in DOMAIN controls |-> generateControlKey(controls[i])]
  IN [k \in Range(keys) |->
        controls[CHOOSE i \in DOMAIN keys :
                   keys[i] = k /\ \A j \in DOMAIN keys : keys[j] = k => j <= i]]

\* lines 389-398: options.encodedSnapshot, or options.snapshot from the
\* capture's result or from the store
Callers == {"encodedSnapshot", "captureSnapshot", "loadedSnapshot"}
GivenSnapshot(caller) ==
  CASE caller = "encodedSnapshot" -> DecodedSnapshot
    [] caller = "captureSnapshot" -> CaptureSnapshot(lastSnapshot)
    [] caller = "loadedSnapshot" -> loaded[1]
\* a snapshot of the store can be passed once it was loaded
Available(caller) == caller = "loadedSnapshot" => loaded # <<>>

\* line 400: !snapshot || !snapshot.formControls
HasFormControls(snap) == "formControls" \in snap.members

\* lines 389-402, 471-481: a snapshot without formControls
RestoreInvalid ==
  /\ restorePc = "page"
  /\ Len(reports) < MaxRestores
  /\ \E caller \in Callers :
       /\ Available(caller)
       /\ ~HasFormControls(GivenSnapshot(caller))
       /\ options' = caller
  /\ restoreError' = "Invalid snapshot data"
  /\ UNCHANGED <<dom, drift, lastSnapshot, optionsSnapshot, restorePc, reports, clicked, dispatched,
                  domAfter>>
  /\ UNCHANGED restoreLocals
  /\ UNCHANGED elsewhere

\* restoreForms matching against the controls of the capture instead of a
\* new extraction
RestoreBeginReused ==
  /\ restorePc = "page"
  /\ Len(reports) < MaxRestores
  /\ \E caller \in Callers :
       /\ Available(caller)
       /\ HasFormControls(GivenSnapshot(caller))
       /\ options' = caller
  /\ restoreError' = "none"
  /\ currentFormControls' = lastSnapshot
  /\ currentControlsMap' = ControlsMap(currentFormControls')
  /\ restoredCount' = 0
  /\ skippedCount' = 0
  /\ errors' = <<>>
  /\ index' = 1
  /\ restorePc' = "loop"
  /\ UNCHANGED <<dom, drift, lastSnapshot, optionsSnapshot, reports, clicked, dispatched, domAfter>>
  /\ UNCHANGED elsewhere

\* lines 382-415
RestoreBegin ==
  /\ restorePc = "page"
  /\ Len(reports) < MaxRestores
  /\ \E caller \in Callers :
       /\ Available(caller)
       /\ HasFormControls(GivenSnapshot(caller))
       /\ options' = caller
  /\ restoreError' = "none"
  /\ \E stream \in RandomStreams :
       currentFormControls' = inspectAllFormControls(dom, now, stream)
  /\ currentControlsMap' = ControlsMap(currentFormControls')
  /\ restoredCount' = 0
  /\ skippedCount' = 0
  /\ errors' = <<>>
  /\ index' = 1
  /\ restorePc' = "loop"
  /\ UNCHANGED <<dom, drift, lastSnapshot, optionsSnapshot, reports, clicked, dispatched, domAfter>>
  /\ UNCHANGED elsewhere

InLoop == restorePc = "loop" /\ index <= Len(optionsSnapshot)
SnapshotKey == generateControlKey(optionsSnapshot[index])
Matched == SnapshotKey \in DOMAIN currentControlsMap
Outcome == restoreControlValue(dom, currentControlsMap[SnapshotKey], optionsSnapshot[index])

\* the loop with an unmatched control reported as an error
RestoreSkipAsError ==
  /\ InLoop
  /\ ~Matched
  /\ errors' = Append(errors, [control |-> Or(optionsSnapshot[index].name,
                                              optionsSnapshot[index].path),
                               error |-> S(<<"C", "o", "n", "t", "r", "o", "l", " ", "n", "o", "t", " ", "f", "o", "u", "n", "d">>)])
  /\ index' = index + 1
  /\ UNCHANGED <<dom, restoredCount, skippedCount, clicked, dispatched>>
  /\ UNCHANGED loopUnchanged
  /\ UNCHANGED elsewhere

\* lines 420-427: no live control has the key
RestoreSkip ==
  /\ InLoop
  /\ ~Matched
  /\ skippedCount' = skippedCount + 1
  /\ index' = index + 1
  /\ UNCHANGED <<dom, restoredCount, errors, clicked, dispatched>>
  /\ UNCHANGED loopUnchanged
  /\ UNCHANGED elsewhere

\* lines 429-431: restoreControlValue returned
RestoreApply ==
  /\ InLoop
  /\ Matched
  /\ Outcome.error = <<>>
  /\ dom' = Outcome.document
  /\ clicked' = IF Outcome.click = 0 THEN clicked ELSE Append(clicked, Outcome.click)
  /\ dispatched' = dispatched \o [k \in DOMAIN Outcome.events |->
                                    <<currentControlsMap[SnapshotKey].element,
                                      Outcome.events[k]>>]
  /\ restoredCount' = restoredCount + 1
  /\ index' = index + 1
  /\ UNCHANGED <<skippedCount, errors>>
  /\ UNCHANGED loopUnchanged
  /\ UNCHANGED elsewhere

\* the loop without the try of line 419: the first error ends it
RestoreFailStops ==
  /\ InLoop
  /\ Matched
  /\ Outcome.error # <<>>
  /\ errors' = Append(errors, [control |-> Or(optionsSnapshot[index].name,
                                              optionsSnapshot[index].path),
                               error |-> Outcome.error])
  /\ index' = Len(optionsSnapshot) + 1
  /\ UNCHANGED <<dom, restoredCount, skippedCount, clicked, dispatched>>
  /\ UNCHANGED loopUnchanged
  /\ UNCHANGED elsewhere

\* the loop with restoredCount++ before the call of restoreControlValue
RestoreFailCounted ==
  /\ InLoop
  /\ Matched
  /\ Outcome.error # <<>>
  /\ errors' = Append(errors, [control |-> Or(optionsSnapshot[index].name,
                                              optionsSnapshot[index].path),
                               error |-> Outcome.error])
  /\ restoredCount' = restoredCount + 1
  /\ index' = index + 1
  /\ UNCHANGED <<dom, skippedCount, clicked, dispatched>>
  /\ UNCHANGED loopUnchanged
  /\ UNCHANGED elsewhere

\* lines 433-439: restoreControlValue threw
RestoreFail ==
  /\ InLoop
  /\ Matched
  /\ Outcome.error # <<>>
  /\ errors' = Append(errors, [control |-> Or(optionsSnapshot[index].name,
                                              optionsSnapshot[index].path),
                               error |-> Outcome.error])
  /\ index' = index + 1
  /\ UNCHANGED <<dom, restoredCount, skippedCount, clicked, dispatched>>
  /\ UNCHANGED loopUnchanged
  /\ UNCHANGED elsewhere

\* lines 442-469
RestoreReturn ==
  /\ restorePc = "loop"
  /\ index > Len(optionsSnapshot)
  /\ reports' = Append(reports, [restoredCount |-> restoredCount,
                                 skippedCount |-> skippedCount,
                                 errorCount |-> Len(errors),
                                 errors |-> errors,
                                 message |-> S(<<"F", "o", "r", "m", " ", "r", "e", "s", "t", "o", "r", "a", "t", "i", "o", "n", " ", "c", "o", "m", "p", "l", "e", "t", "e", "d">>)])
  /\ domAfter' = Append(domAfter, dom)
  /\ restorePc' = "page"
  /\ currentFormControls' = <<>>
  /\ currentControlsMap' = NoMap
  /\ index' = 0
  /\ restoredCount' = 0
  /\ skippedCount' = 0
  /\ errors' = <<>>
  /\ UNCHANGED <<dom, drift, lastSnapshot, optionsSnapshot, clicked, dispatched, options, restoreError>>
  /\ UNCHANGED elsewhere

RestoreNext ==
  \/ ShortcutCapture
  \/ CaptureInspect
  \/ CaptureEncode
  \/ EncodeStringify
  \/ EncodeCompress
  \/ EncodeEncodeData
  \/ EncodeChecksum
  \/ CaptureEncoded
  \/ CaptureCopy
  \/ CaptureSave
  \/ CaptureCommit
  \/ UserTypes
  \/ UserToggles
  \/ UserSelects
  \/ PageSetsAttribute
  \/ PageReordersAttributes
  \/ PageNavigates
  \/ PageRemovesOption
  \/ PageRekeysOptions
  \/ RestoreInvalid
  \/ RestoreBegin
  \/ RestoreSkip
  \/ RestoreApply
  \/ RestoreFail
  \/ RestoreReturn

\* the codec alone: no page
CodecSpecInit == CodecInit /\ PageIdle
SpecCodec == CodecSpecInit /\ [][CodecNext]_vars

\* the content script on a page with a form
RestoreInit == CodecIdle /\ PageInit
SpecRestore == RestoreInit /\ [][RestoreNext]_vars

\* the content script watching a page that grows.  The event loop runs a
\* timeout that is due, and time does not stop
ObserverPageInit ==
  /\ dom \in {BasePage, EmptyPage}
  /\ angularDetected = TRUE
  /\ isAngularTab = TRUE
  /\ popupDetected = TRUE
  /\ env = Willing
  /\ ScriptIdle
ObserverInit == CodecIdle /\ ObserverPageInit
ObserverNext == PageAddsNode \/ TimerFires \/ ScanCompletes \/ TimePasses
SpecObserver ==
  ObserverInit /\ [][ObserverNext]_vars /\ WF_vars(TimerFires) /\ WF_vars(TimePasses)

\* the extension on any page: every way into captureForms, its failures,
\* the store of the background, and restoreForms
ExtensionNext ==
  \/ PopupCapture
  \/ CommandCapture
  \/ MessageCapture
  \/ ShortcutCapture
  \/ CaptureUnavailable
  \/ CaptureInspect
  \/ CaptureNoControls
  \/ CaptureTooMany
  \/ CaptureEncode
  \/ EncodeStringify
  \/ EncodeCompress
  \/ EncodeEncodeData
  \/ EncodeChecksum
  \/ CaptureEncoded
  \/ CaptureCopy
  \/ CaptureCopyFails
  \/ CaptureSave
  \/ CaptureSaveFails
  \/ CaptureCommit
  \/ LoadSnapshot
  \/ InspectReactiveForms
  \/ RestoreInvalid
  \/ RestoreBegin
  \/ RestoreSkip
  \/ RestoreApply
  \/ RestoreFail
  \/ RestoreReturn

ExtensionInit == CodecIdle /\ ExtensionPageInit
SpecExtension == ExtensionInit /\ [][ExtensionNext]_vars

\* the form inspector on a page that Angular has rendered
InspectorPageInit ==
  /\ dom \in InspectorPages
  /\ angularDetected = TRUE
  /\ isAngularTab = TRUE
  /\ popupDetected = TRUE
  /\ env = Willing
  /\ ScriptIdle
InspectorInit == CodecIdle /\ InspectorPageInit
InspectorNext == PageSetsStatus \/ PageDisablesControl \/ InspectAllForms
SpecInspector == InspectorInit /\ [][InspectorNext]_vars

\* generateControlKey alone (content-script.js 565-575): control descriptors
\* as it accepts them: name, tagName and path may be missing ('|| ""'), and
\* no component is escaped
KeyNames == {S(<<>>), S(<<"a">>), S(<<"a", "|", "i", "n", "p", "u", "t">>), S(<<"i", "n", "p", "u", "t">>)}
KeyTagNames == {S(<<>>), S(<<"i", "n", "p", "u", "t">>)}
KeyPaths == {S(<<>>), S(<<"p">>), S(<<"i", "n", "p", "u", "t", "|", "p">>)}
KeyAttributes == {<<>>, <<<<S(<<"i", "d">>), S(<<"a">>)>>>>}
KeyControls ==
  {[name |-> n, tagName |-> t, path |-> p, attributes |-> a] :
     n \in KeyNames, t \in KeyTagNames, p \in KeyPaths, a \in KeyAttributes}
MaxKeyed == 2

\* lines 408-411: currentControlsMap.set(this.generateControlKey(control), control)
\* for the next control of the list
KeyControl ==
  /\ restorePc = "keys"
  /\ index < Len(currentFormControls)
  /\ index' = index + 1
  /\ currentControlsMap' = ControlsMap(SubSeq(currentFormControls, 1, index'))
  /\ UNCHANGED <<dom, drift, lastSnapshot, optionsSnapshot, restorePc, currentFormControls,
                 restoredCount, skippedCount, errors, reports, clicked, dispatched,
                 domAfter, options, restoreError>>
  /\ UNCHANGED elsewhere

KeyInit ==
  /\ CodecIdle
  /\ dom = EmptyPage
  /\ angularDetected = TRUE
  /\ isAngularTab = TRUE
  /\ popupDetected = TRUE
  /\ env = Willing
  /\ drift = 0
  /\ lastSnapshot = <<>>
  /\ optionsSnapshot = <<>>
  /\ restorePc = "keys"
  /\ currentFormControls \in [1..MaxKeyed -> KeyControls]
  /\ currentControlsMap = NoMap
  /\ index = 0
  /\ restoredCount = 0
  /\ skippedCount = 0
  /\ errors = <<>>
  /\ reports = <<>>
  /\ clicked = <<>>
  /\ dispatched = <<>>
  /\ domAfter = <<>>
  /\ options = "none"
  /\ restoreError = "none"
  /\ WorkerIdle
  /\ NothingCaptured
  /\ ObserverIdle
KeyNext == KeyControl
SpecKey == KeyInit /\ [][KeyNext]_vars

(***************************************************************************)
(* The detection of Angular and its hand-off to the background             *)
(* (content-script.js 155-218, service-worker.js 250-307, 344-404).  The   *)
(* model has one tab.                                                      *)
(***************************************************************************)
MAX_DETECTION_ATTEMPTS == 10
FORM_SCAN_INTERVAL == 1000
TabId == 1

\* { type, data } with sender.tab.id
Message(type, tabId, data) == [type |-> type, tabId |-> tabId, data |-> data]

\* content-script.js 203-207: the notification onAngularDetected sends
DetectionNotification(detectionResult) == Message("ANGULAR_DETECTED", TabId, detectionResult)
\* the same notification under the type the background listens for
DetectionNotificationAsRequest(detectionResult) ==
  Message("DETECT_ANGULAR", TabId, detectionResult)

handoffUnchanged ==
  <<dom, drift, lastSnapshot, optionsSnapshot, restorePc, reports, clicked, dispatched,
    domAfter, options, restoreError, popupDetected, env, entry, captureOptions,
    capturedControls, encodedSnapshot, clipboard, loaded, captureError, inspection,
    time, debounceTimers, scansInFlight, formControlsCache, events, restoreLocals,
    codecVars>>

\* content-script.js 155-172, 200-218: one run of detect; window.
\* AngularFormSnapshotDetector finds Angular or not.  When it does,
\* onAngularDetected notifies the background and startFormScanning sets
\* its interval (223-232)
DetectAngular ==
  /\ restorePc = "capture"
  /\ ~angularDetected
  /\ detectionAttempts < MAX_DETECTION_ATTEMPTS
  /\ detectionAttempts' = detectionAttempts + 1
  /\ \E detected \in BOOLEAN :
       IF detected
       THEN /\ angularDetected' = TRUE
            /\ runtimeMessages' =
                 Append(runtimeMessages, DetectionNotification([detected |-> TRUE]))
            /\ timers' = timers \cup {Timer(timerSeq, time + FORM_SCAN_INTERVAL)}
            /\ timerSeq' = timerSeq + 1
       ELSE UNCHANGED <<angularDetected, runtimeMessages, timers, timerSeq>>
  /\ UNCHANGED <<isAngularTab, commands, saveCalls, workerLog, store>>
  /\ UNCHANGED handoffUnchanged

\* service-worker.js 128-145: saveSnapshot up to chrome.storage.local.get
SaveCall(message) ==
  [snapshotEntry |-> [id |-> <<message.tabId, message.data.timestamp>>,
                      tabId |-> message.tabId,
                      timestamp |-> message.data.timestamp,
                      formCount |-> Len(message.data.forms),
                      compressed |-> compressSnapshot(message.data)],
   pc |-> "get",
   snapshots |-> <<>>]

\* service-worker.js 250-307, 427-430: handleMessage up to its first await;
\* a message of a type the switch does not name is logged and dropped
HandleMessage ==
  /\ runtimeMessages # <<>>
  /\ LET message == Head(runtimeMessages)
     IN /\ runtimeMessages' = Tail(runtimeMessages)
        /\ isAngularTab' =
             IF message.type = "DETECT_ANGULAR"
             THEN (IF message.data.detected THEN TRUE ELSE isAngularTab)
             ELSE isAngularTab
        /\ saveCalls' =
             IF message.type = "SAVE_SNAPSHOT"
             THEN Append(saveCalls, SaveCall(message))
             ELSE saveCalls
        /\ workerLog' = Append(workerLog, <<"received", message.type, message.tabId,
                                            IF message.type = "SAVE_SNAPSHOT"
                                            THEN message.data.timestamp ELSE 0>>)
  /\ UNCHANGED <<angularDetected, detectionAttempts, commands, store, timers, timerSeq>>
  /\ UNCHANGED handoffUnchanged

\* service-worker.js 329-336: the snapshots of the tab
getSnapshotsList(snapshots, tabId) ==
  SelectSeq(snapshots, LAMBDA saved : saved.tabId = tabId)

\* service-worker.js 372-404: captureFormsCommand and restoreFormsCommand
CommandOutcome(command) ==
  IF ~isAngularTab THEN "refused"
  ELSE IF command = "restore-forms" /\ getSnapshotsList(store, TabId) = <<>>
       THEN "no snapshot"
       ELSE "forwarded"

Commands == {"capture-forms", "restore-forms"}
MaxCommands == 2

\* service-worker.js 344-404, 432-434: a keyboard command of the browser
KeyboardCommand ==
  /\ Len(commands) < MaxCommands
  /\ \E command \in Commands :
       commands' = Append(commands, [command |-> command,
                                     outcome |-> CommandOutcome(command)])
  /\ UNCHANGED <<angularDetected, isAngularTab, detectionAttempts, runtimeMessages,
                 saveCalls, workerLog, store, timers, timerSeq>>
  /\ UNCHANGED handoffUnchanged

\* a page on which the content script has just started: nothing detected yet
HandoffPageInit ==
  /\ dom = BasePage
  /\ angularDetected = FALSE
  /\ isAngularTab = FALSE
  /\ popupDetected = FALSE
  /\ env = Willing
  /\ ScriptIdle
HandoffInit == CodecIdle /\ HandoffPageInit
HandoffNext == DetectAngular \/ HandleMessage \/ KeyboardCommand
\* the browser delivers a message that was sent, and the timeout of a failed
\* attempt (168) runs
SpecHandoff ==
  HandoffInit /\ [][HandoffNext]_vars /\ WF_vars(HandleMessage) /\ WF_vars(DetectAngular)

(***************************************************************************)
(* SnapshotManager.saveSnapshot as the messages of two tabs reach it       *)
(* (service-worker.js 128-167, 270-273, 427-430).  chrome.storage.local    *)
(* outlives the service worker: the store may hold the snapshots of        *)
(* earlier sessions.  A snapshot id, snapshot_<tabId>_<timestamp>, is the  *)
(* pair of its two numbers.                                                *)
(***************************************************************************)
SaveTabs == {1, 2}
MaxSaves == 3
\* Date.now() of the first capture of this session, after the stored ones
FirstStamp == 1001

\* snapshot.forms of a capture: the first control of the sign-up page
SnapshotForms ==
  <<SnapshotControl(
      inspectAllFormControls(BasePage, S(<<"1", "7", "0", "0", "0", "0", "0", "0", "0", "0", "0", "0", "0">>),
                             CHOOSE stream \in RandomStreams : TRUE)[1])>>

\* the entries of n earlier saves, oldest first
StoredBefore(n) ==
  [i \in 1..n |->
     SaveCall(Message("SAVE_SNAPSHOT", TabId,
                      [timestamp |-> i, forms |-> SnapshotForms])).snapshotEntry]
StoredCounts == {0, maxSnapshots - 1, maxSnapshots}

IsSave(event) == event[2] = "SAVE_SNAPSHOT"
SavesSent ==
  Len(SelectSeq(workerLog, LAMBDA event : event[1] = "received" /\ IsSave(event)))
  + Len(runtimeMessages)

\* content-script.js 334-339: captureForms of a tab sends its snapshot
SendSave ==
  /\ SavesSent < MaxSaves
  /\ \E tab \in SaveTabs :
       runtimeMessages' =
         Append(runtimeMessages,
                Message("SAVE_SNAPSHOT", tab,
                        [timestamp |-> FirstStamp + SavesSent, forms |-> SnapshotForms]))
  /\ UNCHANGED <<angularDetected, isAngularTab, detectionAttempts, commands, saveCalls,
                 workerLog, store, timers, timerSeq>>
  /\ UNCHANGED handoffUnchanged

\* service-worker.js 147-158: chrome.storage.local.get answers a call; the
\* entry is pushed, the oldest entries are spliced off, and
\* chrome.storage.local.set is called
SaveRead ==
  /\ \E c \in DOMAIN saveCalls :
       /\ saveCalls[c].pc = "get"
       /\ saveCalls' = [saveCalls EXCEPT ![c].pc = "set",
                                          ![c].snapshots = Saved(store, saveCalls[c].snapshotEntry)]
  /\ UNCHANGED <<angularDetected, isAngularTab, detectionAttempts, runtimeMessages, commands,
                 workerLog, store, timers, timerSeq>>
  /\ UNCHANGED handoffUnchanged

\* service-worker.js 158-162, 270-273: chrome.storage.local.set has written
\* the list of a call, saveSnapshot returns its id and handleMessage answers
\* { success: true, snapshotId }
SaveWrite ==
  /\ \E c \in DOMAIN saveCalls :
       /\ saveCalls[c].pc = "set"
       /\ store' = saveCalls[c].snapshots
       /\ saveCalls' = [k \in 1..(Len(saveCalls) - 1) |->
                          IF k < c THEN saveCalls[k] ELSE saveCalls[k + 1]]
       /\ workerLog' = Append(workerLog, <<"answered", "SAVE_SNAPSHOT",
                                           saveCalls[c].snapshotEntry.tabId,
                                           saveCalls[c].snapshotEntry.timestamp>>)
  /\ UNCHANGED <<angularDetected, isAngularTab, detectionAttempts, runtimeMessages, commands,
                 timers, timerSeq>>
  /\ UNCHANGED handoffUnchanged

\* the tabs have their content scripts running; the store holds what
\* earlier sessions left
SavesPageInit ==
  /\ dom = BasePage
  /\ angularDetected = TRUE
  /\ isAngularTab = FALSE
  /\ popupDetected = TRUE
  /\ env = Willing
  /\ drift = 0
  /\ lastSnapshot = <<>>
  /\ optionsSnapshot = <<>>
  /\ restorePc = "capture"
  /\ currentFormControls = <<>>
  /\ currentControlsMap = NoMap
  /\ index = 0
  /\ restoredCount = 0
  /\ skippedCount = 0
  /\ errors = <<>>
  /\ reports = <<>>
  /\ clicked = <<>>
  /\ dispatched = <<>>
  /\ domAfter = <<>>
  /\ options = "none"
  /\ restoreError = "none"
  /\ WorkerIdle
  /\ entry = "none"
  /\ captureOptions = DefaultOptions
  /\ capturedControls = <<>>
  /\ encodedSnapshot = NoText
  /\ clipboard = NoText
  /\ \E n \in StoredCounts : store = StoredBefore(n)
  /\ loaded = <<>>
  /\ captureError = "none"
  /\ inspection = NotInspected
  /\ ObserverIdle
SavesInit == CodecIdle /\ SavesPageInit
SavesNext == SendSave \/ HandleMessage \/ SaveRead \/ SaveWrite
SpecSaves == SavesInit /\ [][SavesNext]_vars

(***************************************************************************)
(* Properties of the codec, checked under SpecCodec.                       *)
(***************************************************************************)
Finished == decPc \in {"done", "failed"}

\* the token handed to decodeFormData is the encoder's with exactly one unit
\* of its payload segment replaced by a unit other than the separator
DiffPositions == {i \in DOMAIN token : encodedData[i] # token[i]}
PayloadUnitReplaced ==
  /\ decPc # "idle"
  /\ Len(encodedData) = Len(token)
  /\ Cardinality(DiffPositions) = 1
  /\ \A i \in DiffPositions : i > Len(token) - Len(encoded) /\ encodedData[i] # SEPARATOR

\* C1: decodeFormData(encodeFormData(s)) returns a snapshot equal to s field
\* for field, the controls in the same order, whatever the serialized size.
C1_RoundTrip ==
  (Finished /\ encodedData = token) =>
    (decPc = "done" /\ result = SnapshotResult(snapshot))

\* C2: replacing one unit of the payload segment of an encoder's token makes
\* decodeFormData fail with the integrity error: it returns nothing and fails
\* with no other error.  (Stated for replacements other than the separator.)
C2_TamperedPayloadFailsIntegrity ==
  (Finished /\ PayloadUnitReplaced) =>
    (decPc = "failed" /\ decError = "Data decoding failed: Data integrity check failed")

\* C3: once the version step is over, a three-part token whose version
\* segment is not VERSION has failed with the version error, whatever its
\* checksum and payload segments are.
C3_VersionGating ==
  (/\ decPc \in {"checksum", "decodeData", "decompress", "parse", "done", "failed"}
   /\ Len(parts) = 3
   /\ parts[1] # VERSION)
    => (decPc = "failed" /\ decError = "Data decoding failed: Unsupported version" /\ result = NoResult)

\* a token of another version whose checksum segment matches its payload is
\* refused with the version error
C3_Witness ==
  /\ decPc = "failed"
  /\ decError = "Data decoding failed: Unsupported version"
  /\ Len(parts) = 3
  /\ parts[3] = encoded
  /\ parts[2] = calculateChecksum(parts[3], cryptoSubtle)

\* C4: the text-decode, decompression and parse steps run only after the
\* recomputed checksum was found equal to the stored one; after a mismatch
\* decodeFormData has failed and nothing of the payload was decoded.
C4_ChecksumBeforePayload ==
  /\ decPc \in {"decodeData", "decompress", "parse", "done"} =>
       (calculatedChecksum # <<>> /\ parts[2] = calculatedChecksum)
  /\ (decoded # NoValue \/ decompressed # <<>> \/ result # NoResult) =>
       (calculatedChecksum # <<>> /\ parts[2] = calculatedChecksum)
  /\ (decPc \in {"decodeData", "decompress", "parse", "done", "failed"}
      /\ Len(parts) = 3 /\ parts[1] = VERSION /\ parts[2] # calculatedChecksum) =>
       (/\ decPc = "failed" /\ decError = "Data decoding failed: Data integrity check failed"
        /\ decoded = NoValue /\ decompressed = <<>> /\ result = NoResult)

\* a payload is being decompressed after its checksum matched
C4_Witness ==
  /\ decPc = "decompress"
  /\ decoded # NoValue
  /\ parts[2] = calculatedChecksum

\* C5: encodeFormData refuses a snapshot whose serialized size exceeds
\* MAX_SNAPSHOT_SIZE before the compression step and produces no token.
C5_CapacityBeforeCompression ==
  encPc \in {"encodeData", "checksum", "done"} =>
    TextLen(jsonString) <= MAX_SNAPSHOT_SIZE

\* C6: a token has exactly three segments and its checksum segment is 16
\* hexadecimal digits, with crypto.subtle and without.
IsHex(s) == \A i \in DOMAIN s : \E d \in DOMAIN HexDigits : s[i] = HexDigits[d]
C6_TokenShape ==
  encPc = "done" =>
    LET segments == Split(token, SEPARATOR)
    IN /\ Len(segments) = 3
       /\ Len(segments[2]) = 16
       /\ IsHex(segments[2])

(***************************************************************************)
(* Properties of restoreForms, checked under SpecRestore.                  *)
(***************************************************************************)
\* the loop of restoreForms is over and the report not yet returned
LoopOver == restorePc = "loop" /\ index > Len(optionsSnapshot)

SnapshotKeys == [i \in DOMAIN optionsSnapshot |-> generateControlKey(optionsSnapshot[i])]
AllMatched == \A i \in DOMAIN optionsSnapshot : SnapshotKeys[i] \in DOMAIN currentControlsMap
\* the live elements the snapshot controls are matched with
Counterparts == {currentControlsMap[SnapshotKeys[i]].element : i \in DOMAIN optionsSnapshot}
LockedCounterparts ==
  {e \in Counterparts : ElementDisabled(dom[e]) \/ ElementReadOnly(dom[e])}
DistinctKeys ==
  \A i, j \in DOMAIN optionsSnapshot : i # j => SnapshotKeys[i] # SnapshotKeys[j]
\* every snapshot control matched with a select names one of its options
OptionsPresent ==
  \A i \in DOMAIN optionsSnapshot :
    LET e == currentControlsMap[SnapshotKeys[i]].element
    IN dom[e].tagName = T_select =>
         MatchingOptions(dom[e], optionsSnapshot[i].value) # <<>>
OneFailure ==
  /\ restoredCount = Len(optionsSnapshot) - 1
  /\ skippedCount = 0
  /\ Len(errors) = 1

C8_UnmatchedIsSkipped ==
  [][(InLoop /\ ~Matched) =>
       (/\ skippedCount' = skippedCount + 1
        /\ errors' = errors
        /\ restoredCount' = restoredCount
        /\ dom' = dom
        /\ clicked' = clicked)]_vars

\* a control was skipped: counted, with no error
C8_Witness ==
  /\ restorePc = "loop"
  /\ skippedCount > 0
  /\ errors = <<>>

\* the values the controls of a document hold
ControlValues(document) ==
  [e \in DOMAIN document |-> <<ElementValue(document[e]), document[e].checked>>]

\* C9: a second restore of the same snapshot, the page changed by nothing
\* but the first restore, leaves the same control values and reports the
\* same restoredCount.
C9_IdempotentRestore ==
  Len(reports) = 2 =>
    /\ ControlValues(domAfter[2]) = ControlValues(domAfter[1])
    /\ reports[2].restoredCount = reports[1].restoredCount

\* the descriptors of the capture and of the first restore were extracted
\* with no change of the document in between
TwoPasses == restorePc = "loop" /\ reports = <<>> /\ drift = 0

\* C10: two descriptors extracted from the same element by two passes with
\* no change of the document in between have the same match key, which no
\* id is part of.
C10_KeyStableAcrossPasses ==
  TwoPasses =>
    /\ \A i \in DOMAIN lastSnapshot, j \in DOMAIN currentFormControls :
         lastSnapshot[i].element = currentFormControls[j].element =>
           generateControlKey(lastSnapshot[i]) = generateControlKey(currentFormControls[j])
    /\ \A j \in DOMAIN currentFormControls :
         generateControlKey([currentFormControls[j] EXCEPT !.id = <<>>])
           = generateControlKey(currentFormControls[j])

\* two passes gave the descriptors of one element different ids
C10_Witness ==
  /\ TwoPasses
  /\ \E i \in DOMAIN lastSnapshot, j \in DOMAIN currentFormControls :
       /\ lastSnapshot[i].element = currentFormControls[j].element
       /\ lastSnapshot[i].id # currentFormControls[j].id
       /\ generateControlKey(lastSnapshot[i]) = generateControlKey(currentFormControls[j])

(***************************************************************************)
(* Properties of the match key and of the entry of restoreForms.           *)
(***************************************************************************)
\* the name/value pairs of a descriptor's attributes, without their order
AttributePairs(control) == Range(control.attributes)

SameLogicalControl(a, b) ==
  /\ a.name = b.name
  /\ a.tagName = b.tagName
  /\ a.path = b.path
  /\ AttributePairs(a) = AttributePairs(b)

\* C11: two descriptors with the same name, tagName and path and the same
\* attribute pairs have the same match key, whatever the order in which
\* their attributes were inserted.
C11_KeyIgnoresAttributeOrder ==
  \A i \in DOMAIN optionsSnapshot, j \in DOMAIN currentFormControls :
    SameLogicalControl(optionsSnapshot[i], currentFormControls[j])
      => generateControlKey(optionsSnapshot[i]) = generateControlKey(currentFormControls[j])

\* C12: a call of restoreForms given the snapshot object of the capture, as
\* captureForms returned it or as LOAD_SNAPSHOT answers it, does not throw:
\* it is processed and a report returned.
C12_SnapshotObjectAccepted ==
  options \in {"captureSnapshot", "loadedSnapshot"} => restoreError = "none"

\* C13: restoreForms throws when the extraction of the live page finds no
\* control: it never goes on to the loop over the snapshot's controls with
\* an empty list of live controls.
C13_NoLiveControlsThrows ==
  restorePc = "loop" => Len(currentFormControls) > 0

(***************************************************************************)
(* Properties of the extraction, checked on the live controls of a restore *)
(* before its first control is applied.                                    *)
(***************************************************************************)
Extracted == restorePc = "loop" /\ index = 1

\* the calls of the passes that selected element e, in their order
CallsFor(document, e) ==
  SelectSeq(InspectorCalls(document), LAMBDA call : call[2] = e)

UnboundMaterialControl(document, e) ==
  /\ ~IsAngular(document[e])
  /\ \E k \in DOMAIN MaterialCalls(document) : MaterialCalls(document)[k][2] = e

\* C15: the passes have the priority bound control, two-way binding, rich
\* component, native: a control of a Material field that has no Angular
\* directive is emitted as material_form_control, and before every
\* generic_form_control descriptor.
C15_MaterialBeforeNative ==
  Extracted =>
    \A i \in DOMAIN currentFormControls :
      UnboundMaterialControl(dom, currentFormControls[i].element) =>
        /\ currentFormControls[i].type = S(<<"m", "a", "t", "e", "r", "i", "a", "l", "_", "f", "o", "r", "m", "_", "c", "o", "n", "t", "r", "o", "l">>)
        /\ \A j \in DOMAIN currentFormControls :
             currentFormControls[j].type = S(<<"g", "e", "n", "e", "r", "i", "c", "_", "f", "o", "r", "m", "_", "c", "o", "n", "t", "r", "o", "l">>) => i < j

\* the elements the two inspectors call an extraction for, and those for
\* which it does not throw
ContentCandidates(document) ==
  {InspectorCalls(document)[k][2] : k \in DOMAIN InspectorCalls(document)}
ReactiveCandidates(document) ==
  UNION {Range(ReactiveControlElements(document, FormGroupElements(document)[k])) :
           k \in DOMAIN FormGroupElements(document)}
  \cup Range(StandaloneControls(document))
ControlElements(controls) == {controls[i].element : i \in DOMAIN controls}

\* C16: when the extraction of one control throws, the inspection still
\* returns, and every control whose own extraction does not throw is in
\* the result: in the snapshot of captureForms (FormControlInspector) and
\* in the result of inspectReactiveForms (AngularFormInspector)
ContentOmitsOnlyFailing ==
  lastSnapshot # <<>> =>
    \A e \in ContentCandidates(dom) :
      ~PathThrows(dom, e) => e \in ControlElements(lastSnapshot)
ReactiveOmitsOnlyFailing ==
  inspection # NotInspected =>
    \A e \in ReactiveCandidates(dom) :
      ~ReactiveControlThrows(dom, e) => e \in ControlElements(inspection[1].controls)
C16_OnlyTheFailingControlOmitted == ContentOmitsOnlyFailing /\ ReactiveOmitsOnlyFailing

\* C17: when captureForms throws, whatever the step that failed, it has
\* exposed nothing: the clipboard holds no token, the store no snapshot,
\* and lastSnapshot is what it was (a capture that succeeds is the last
\* one of a page, so every call before a failing call failed as well)
C17_FailedCaptureExposesNothing ==
  captureError # "none" => clipboard = NoText /\ store = <<>> /\ lastSnapshot = <<>>

\* C18: captureForms and restoreForms are entered on a page only if
\* Angular has been detected on it, by whichever part of the extension
\* asks (the content script, the popup or the background)
C18_EntriesGatedByDetection ==
  (entry # "none" \/ options # "none") =>
    (angularDetected \/ popupDetected \/ isAngularTab)

\* the calls of debounce and the scans, by their place in the order of events
Notifications == {i \in DOMAIN events : events[i][1] = "notify"}
Scans == {i \in DOMAIN events : events[i][1] = "scan"}
At(i) == events[i][2]
NextNotification(i) == CHOOSE j \in Notifications : j > i /\ \A k \in Notifications : k > i => j <= k
\* the last notification of a burst: none follows it, or the next one comes
\* DEBOUNCE_DELAY or more after it
EndsBurst(i) ==
  /\ i \in Notifications
  /\ \A j \in Notifications : j > i => At(NextNotification(i)) - At(i) >= DEBOUNCE_DELAY
\* the scans between the end of a burst and the next notification
ScansAfter(i) ==
  {s \in Scans : s > i /\ \A j \in Notifications : j > i => s < j}
Settled == timers = {}

LastNotificationBefore(s) ==
  CHOOSE i \in Notifications : i < s /\ \A k \in Notifications : k < s => k <= i

\* C19, amended: at most one timer is pending, and one is pending exactly
\* while a notification has not been followed by a scan; every scan comes
\* DEBOUNCE_DELAY or more after the most recent notification, and two
\* scans have a notification between them: the notifications that arrive
\* before the pending timer has run share one scan
DebounceSafe ==
  /\ Cardinality(timers) <= 1
  /\ (debounceTimers # <<>>) <=> (timers # {})
  /\ (timers # {}) <=>
       (\E i \in Notifications : \A s \in Scans : s < i)
  /\ \A s \in Scans :
       /\ \E i \in Notifications : i < s
       /\ At(s) >= At(LastNotificationBefore(s)) + DEBOUNCE_DELAY
       /\ \A r \in Scans : r < s => r < LastNotificationBefore(s)
LoopStep == restorePc = "loop" /\ restorePc' = "loop"
LoopEntered == restorePc # "loop" /\ restorePc' = "loop"
SettledControls == restoredCount + skippedCount + Len(errors)

\* C20: a restore run extracts the live controls once, on entry and from
\* the page as it is then, before any control is applied; every later
\* step settles exactly the snapshot control at index (restored, skipped
\* or failed), writes to no element but its counterpart, keeps the
\* extraction, and moves to the next index
C20_OneControlAtATime ==
  [][/\ LoopEntered =>
          /\ index' = 1
          /\ restoredCount' = 0 /\ skippedCount' = 0 /\ errors' = <<>>
          /\ dom' = dom
          /\ \E stream \in RandomStreams :
               currentFormControls' = inspectAllFormControls(dom, now, stream)
     /\ LoopStep =>
          /\ SettledControls = index - 1
          /\ index' = index + 1
          /\ restoredCount' + skippedCount' + Len(errors') = index
          /\ currentFormControls' = currentFormControls
          /\ currentControlsMap' = currentControlsMap
          /\ \A e \in DOMAIN dom :
               dom'[e] # dom[e] => Matched /\ e = currentControlsMap[SnapshotKey].element]_vars

\* a run that is past its second control, with one restored and one not
C20_Witness ==
  /\ restorePc = "loop"
  /\ index >= 3
  /\ restoredCount >= 1
  /\ skippedCount + Len(errors) >= 1
  /\ \E i \in DOMAIN currentFormControls, j \in DOMAIN lastSnapshot :
       /\ currentFormControls[i].element = lastSnapshot[j].element
       /\ currentFormControls[i].value # lastSnapshot[j].value

\* the snapshot control at index has a live select for counterpart and that
\* select can be written
SelectStep ==
  /\ InLoop
  /\ Matched
  /\ dom[currentControlsMap[SnapshotKey].element].tagName = T_select
  /\ ~ElementDisabled(dom[currentControlsMap[SnapshotKey].element])
SelectCandidates ==
  MatchingOptions(dom[currentControlsMap[SnapshotKey].element], optionsSnapshot[index].value)

\* C21: when the snapshot value of a select equals the value or the label
\* of one of the live element's options, an option with that value or label
\* is the selected option once restoreControlValue has finished; when no
\* option matches, an 'Option not found' error is recorded for the control
\* and the selection is unchanged
C21_SelectByValueOrLabel ==
  [][SelectStep =>
       LET e == currentControlsMap[SnapshotKey].element
       IN IF SelectCandidates # <<>>
          THEN /\ dom'[e].selectedIndex + 1 \in Range(SelectCandidates)
               /\ restoredCount' = restoredCount + 1
          ELSE /\ dom'[e].selectedIndex = dom[e].selectedIndex
               /\ Len(errors') = Len(errors) + 1
               /\ errors'[Len(errors')].error =
                    E_option \o JsText(optionsSnapshot[index].value)]_vars

\* the snapshot control at index has a live counterpart that is disabled or
\* read-only
LockedStep ==
  /\ InLoop
  /\ Matched
  /\ \/ ElementDisabled(dom[currentControlsMap[SnapshotKey].element])
     \/ ElementReadOnly(dom[currentControlsMap[SnapshotKey].element])

C23_CountersForEveryForm ==
  inspection # NotInspected =>
    \A k \in DOMAIN inspection[1].forms :
      /\ inspection[1].validation # <<>>
      /\ LET counters == inspection[1].validation[1].formValidation[k]
             controls == inspection[1].forms[k].controls
         IN /\ counters.validControls = CountState(controls, "VALID")
            /\ counters.invalidControls = CountState(controls, "INVALID")
            /\ counters.pendingControls = CountState(controls, "PENDING")
            /\ counters.disabledControls = CountState(controls, "DISABLED")
            /\ counters.validControls + counters.invalidControls
               + counters.pendingControls + counters.disabledControls = Len(controls)

\* the family elements directly inside a group or array element: those
\* whose nearest group or array above them is that element
DirectFamily(document, e) ==
  {d \in Range(ReactiveControlElements(document, e)) :
     ClosestGroup(document, document[d].parent) = e}
IsGroupLike(control) ==
  control.type \in {S(<<"r", "e", "a", "c", "t", "i", "v", "e", "_", "f", "o", "r", "m", "_", "g", "r", "o", "u", "p">>), S(<<"r", "e", "a", "c", "t", "i", "v", "e", "_", "f", "o", "r", "m", "_", "a", "r", "r", "a", "y">>)}

RECURSIVE NestedComplete(_, _)
NestedComplete(document, control) ==
  \A d \in DirectFamily(document, control.element) :
    \E k \in DOMAIN control.nestedControls :
      /\ control.nestedControls[k].element = d
      /\ IsGroupLike(control.nestedControls[k]) =>
           NestedComplete(document, control.nestedControls[k])

RECURSIVE NestedDepth(_)
NestedDepth(control) ==
  IF control.nestedControls = <<>> THEN 0
  ELSE 1 + (CHOOSE n \in 0..Len(control.path) :
              /\ \A k \in DOMAIN control.nestedControls :
                   NestedDepth(control.nestedControls[k]) <= n
              /\ \E k \in DOMAIN control.nestedControls :
                   NestedDepth(control.nestedControls[k]) = n)

\* C24: the nestedControls of a group- or array-like reactive control hold
\* a descriptor for each family element directly inside it, a group or
\* array directly inside it included, and so on down the tree, and the
\* tree is at most MAX_DEPTH deep
C24_NestedTreeComplete ==
  inspection # NotInspected =>
    \A k \in DOMAIN inspection[1].controls :
      IsGroupLike(inspection[1].controls[k]) =>
        /\ NestedComplete(dom, inspection[1].controls[k])
        /\ NestedDepth(inspection[1].controls[k]) <= MAX_DEPTH

(***************************************************************************)
(* More properties of restoreForms, checked under SpecRestore.             *)
(***************************************************************************)
\* the live controls of a key, by their place in the extraction
LiveWithKey(key) ==
  {i \in DOMAIN currentFormControls : generateControlKey(currentFormControls[i]) = key}
FirstLiveWithKey(key) ==
  currentFormControls[CHOOSE i \in LiveWithKey(key) : \A j \in LiveWithKey(key) : i <= j]

\* C25: when several live controls have the key of a snapshot control, the
\* snapshot control is applied to the first of them in extraction order
C25_FirstLiveControlWins ==
  [][(InLoop /\ Matched /\ restoredCount' = restoredCount + 1) =>
       /\ dispatched' # dispatched
       /\ dispatched'[Len(dispatched')][1] = FirstLiveWithKey(SnapshotKey).element]_vars

\* the report the last call of restoreForms returned
LastReport == reports[Len(reports)]
Returned == restorePc = "page" /\ reports # <<>> /\ restoreError = "none"

Keyed == IF restorePc = "keys" THEN 1..index ELSE {}
SameComponents(c, d) ==
  /\ c.name = d.name
  /\ c.tagName = d.tagName
  /\ c.path = d.path
  /\ c.attributes = d.attributes

\* C27: generateControlKey is injective on its components: two controls
\* that differ in name, tagName, path or attributes never get the same
\* key, also when a component is empty or contains '|'
C27_KeyInjective ==
  \A i, j \in Keyed :
    ~SameComponents(currentFormControls[i], currentFormControls[j]) =>
      generateControlKey(currentFormControls[i]) # generateControlKey(currentFormControls[j])

\* C28: whenever the content script has detected Angular on the tab and
\* sent its notification, the background eventually has the tab among its
\* Angular tabs (and from then on forwards a keyboard command)
C28_DetectionReachesBackground == angularDetected ~> isAngularTab

\* the save call that is answered in this step, and whether it ran alone:
\* no other call stands at an await, and nothing was received or answered
\* since its message was received
LastEvent == workerLog[Len(workerLog)]
SaveAnswered == workerLog' # workerLog /\ LastEvent'[1] = "answered"
RanAlone ==
  /\ Len(saveCalls) = 1
  /\ LastEvent = <<"received", "SAVE_SNAPSHOT", saveCalls[1].snapshotEntry.tabId,
                   saveCalls[1].snapshotEntry.timestamp>>

\* C29: the stored list never holds more than maxSnapshots entries, and a
\* save that does not overlap another one leaves the list it found with
\* its entry appended, less the oldest entry when the list was full: the
\* list keeps the save order and the most recent entries
C29_StoreBoundedInSaveOrder ==
  [][/\ Len(store') <= maxSnapshots
     /\ (SaveAnswered /\ RanAlone) =>
          store' = IF Len(store) < maxSnapshots
                   THEN Append(store, saveCalls[1].snapshotEntry)
                   ELSE Append(Tail(store), saveCalls[1].snapshotEntry)]_vars

\* calls that never overlapped: every message received was answered before
\* the next one was received
Alternating ==
  \A k \in DOMAIN workerLog :
    workerLog[k][1] = (IF k % 2 = 1 THEN "received" ELSE "answered")

\* two saves one after the other into a full store: the oldest entry of the
\* earlier sessions went with the first, the next oldest with the second
C29_Witness ==
  /\ Alternating
  /\ Len(workerLog) = 4
  /\ Len(store) = maxSnapshots
  /\ store[1].timestamp = 3
  /\ store[maxSnapshots].timestamp = FirstStamp + 1
  /\ store[maxSnapshots - 1].timestamp = FirstStamp

InStore(saved, snapshots) == \E k \in DOMAIN snapshots : snapshots[k] = saved

\* C30: no saved snapshot is lost when saves interleave: an entry leaves the
\* store only by the eviction at the maxSnapshots limit
C30_NoSnapshotLost ==
  [][\A k \in DOMAIN store :
       InStore(store[k], store') \/ Len(store') >= maxSnapshots]_vars

====
